---- MODULE Spec2Model ----
(***************************************************************************)
(* producePachet (src/produce_pachet_service.py): one production request   *)
(* recorded in the Firebird ledger (ARTICOLE, MISCARI, BON_DET, PRED_DET)  *)
(* inside one transaction per attempt, called from the scheduler thread    *)
(* and from manual job threads (src/desktop_stock_erp_app.py).             *)
(*                                                                         *)
(* Python str values are sequences of one-character strings; Decimal       *)
(* values are integers counting 0.00001; the Firebird server is modelled   *)
(* with the driver's default transaction (SNAPSHOT isolation, WAIT).       *)
(***************************************************************************)
EXTENDS Integers, Sequences, FiniteSets, TLC

\* ---------------------------------------------------------------- bounds
NumDates == 2
MaxIdDoc == 2
MaxMat == 2
MaxCalls == 2
MaxLoops == 2




\* The threads that call producePachet: SchedulerEngine._run_loop and the
\* runner thread of DesktopApp._run_manual_job.
Threads == {"scheduler", "manual"}

Dates == 1..NumDates

\* ------------------------------------------------------- character data

\* ------------------------------------------------------------ characters
\* A Python str is the sequence of its characters
LowerChar(c) ==
  CASE c = "A" -> "a"
    [] c = "B" -> "b"
    [] c = "C" -> "c"
    [] c = "D" -> "d"
    [] c = "E" -> "e"
    [] c = "F" -> "f"
    [] c = "G" -> "g"
    [] c = "H" -> "h"
    [] c = "I" -> "i"
    [] c = "J" -> "j"
    [] c = "K" -> "k"
    [] c = "L" -> "l"
    [] c = "M" -> "m"
    [] c = "N" -> "n"
    [] c = "O" -> "o"
    [] c = "P" -> "p"
    [] c = "Q" -> "q"
    [] c = "R" -> "r"
    [] c = "S" -> "s"
    [] c = "T" -> "t"
    [] c = "U" -> "u"
    [] c = "V" -> "v"
    [] c = "W" -> "w"
    [] c = "X" -> "x"
    [] c = "Y" -> "y"
    [] c = "Z" -> "z"
    [] OTHER -> c

UpperChar(c) ==
  CASE c = "a" -> "A"
    [] c = "b" -> "B"
    [] c = "c" -> "C"
    [] c = "d" -> "D"
    [] c = "e" -> "E"
    [] c = "f" -> "F"
    [] c = "g" -> "G"
    [] c = "h" -> "H"
    [] c = "i" -> "I"
    [] c = "j" -> "J"
    [] c = "k" -> "K"
    [] c = "l" -> "L"
    [] c = "m" -> "M"
    [] c = "n" -> "N"
    [] c = "o" -> "O"
    [] c = "p" -> "P"
    [] c = "q" -> "Q"
    [] c = "r" -> "R"
    [] c = "s" -> "S"
    [] c = "t" -> "T"
    [] c = "u" -> "U"
    [] c = "v" -> "V"
    [] c = "w" -> "W"
    [] c = "x" -> "X"
    [] c = "y" -> "Y"
    [] c = "z" -> "Z"
    [] OTHER -> c

\* The printable ASCII characters in code order (the backquote left out)
Ascii ==
  <<" ", "!", "\"", "#", "$", "%", "&", "'", "(", ")", "*", "+", ",", "-", ".", "/", "0", "1", "2", "3", "4", "5", "6", "7", "8", "9", ":", ";", "<", "=", ">", "?", "@", "A", "B", "C", "D", "E", "F", "G", "H", "I", "J", "K", "L", "M", "N", "O", "P", "Q", "R", "S", "T", "U", "V", "W", "X", "Y", "Z", "[", "\\", "]", "^", "_", "a", "b", "c", "d", "e", "f", "g", "h", "i", "j", "k", "l", "m", "n", "o", "p", "q", "r", "s", "t", "u", "v", "w", "x", "y", "z", "{", "|", "}", "~">>

\* The characters of a name of the catalog (a column or a table)
Chars(name) ==
  CASE name = "ID_U" -> <<"I", "D", "_", "U">>
    [] name = "ID" -> <<"I", "D">>
    [] name = "ID_DOC" -> <<"I", "D", "_", "D", "O", "C">>
    [] name = "ID_UNIC" -> <<"I", "D", "_", "U", "N", "I", "C">>
    [] name = "DATA" -> <<"D", "A", "T", "A">>
    [] name = "NR_DOC" -> <<"N", "R", "_", "D", "O", "C">>
    [] name = "NR" -> <<"N", "R">>
    [] name = "COD_ART" -> <<"C", "O", "D", "_", "A", "R", "T">>
    [] name = "CANTITATE" -> <<"C", "A", "N", "T", "I", "T", "A", "T", "E">>
    [] name = "PRET" -> <<"P", "R", "E", "T">>
    [] name = "VALOARE" -> <<"V", "A", "L", "O", "A", "R", "E">>
    [] name = "UM" -> <<"U", "M">>
    [] name = "DENUMIRE" -> <<"D", "E", "N", "U", "M", "I", "R", "E">>
    [] name = "GESTIUNE" -> <<"G", "E", "S", "T", "I", "U", "N", "E">>
    [] name = "NR_POZ" -> <<"N", "R", "_", "P", "O", "Z">>
    [] name = "OBS" -> <<"O", "B", "S">>
    [] name = "COD_MP" -> <<"C", "O", "D", "_", "M", "P">>
    [] name = "ARTICOLE" -> <<"A", "R", "T", "I", "C", "O", "L", "E">>
    [] name = "MISCARI" -> <<"M", "I", "S", "C", "A", "R", "I">>
    [] name = "BON_DET" -> <<"B", "O", "N", "_", "D", "E", "T">>
    [] name = "PRED_DET" -> <<"P", "R", "E", "D", "_", "D", "E", "T">>
    [] name = "POZA" -> <<"P", "O", "Z", "A">>
    [] name = "DUPLICATE" -> <<"D", "U", "P", "L", "I", "C", "A", "T", "E">>
    [] name = "STARE" -> <<"S", "T", "A", "R", "E">>
    [] name = "ZI" -> <<"Z", "I">>
    [] name = "ORA" -> <<"O", "R", "A">>
    [] name = "MOMENT" -> <<"M", "O", "M", "E", "N", "T">>
    [] name = "NOTA" -> <<"N", "O", "T", "A">>

DigitChars == <<"0", "1", "2", "3", "4", "5", "6", "7", "8", "9">>

\* str.lower()
Lower(cs) == [i \in DOMAIN cs |-> LowerChar(cs[i])]

\* needle in hay
Contains(hay, needle) ==
  \E i \in 0..(Len(hay) - Len(needle)) : SubSeq(hay, i + 1, i + Len(needle)) = needle

\* str.strip(): the surrounding blanks removed
Strip(cs) ==
  LET keep == {i \in DOMAIN cs : cs[i] # " "}
  IN IF keep = {} THEN <<>>
     ELSE SubSeq(cs, CHOOSE i \in keep : \A j \in keep : i <= j,
                     CHOOSE i \in keep : \A j \in keep : j <= i)

\* str.rstrip()
_trim_db_char(cs) ==
  LET keep == {i \in DOMAIN cs : cs[i] # " "}
  IN IF keep = {} THEN <<>>
     ELSE SubSeq(cs, 1, CHOOSE i \in keep : \A j \in keep : j <= i)

\* str.isdigit()
IsDigit(cs) == cs # <<>> /\ \A i \in DOMAIN cs : \E d \in DOMAIN DigitChars : DigitChars[d] = cs[i]

DigitValue(c) == (CHOOSE d \in DOMAIN DigitChars : DigitChars[d] = c) - 1

\* int(cs) of a string of digits
RECURSIVE ToInt(_)
ToInt(cs) ==
  IF cs = <<>> THEN 0
  ELSE 10 * ToInt(SubSeq(cs, 1, Len(cs) - 1)) + DigitValue(cs[Len(cs)])

\* str(n) of a natural number
RECURSIVE Digits(_)
Digits(n) ==
  IF n < 10 THEN <<DigitChars[n + 1]>>
  ELSE Digits(n \div 10) \o <<DigitChars[(n % 10) + 1]>>

\* str(n) of an integer
IntStr(n) == IF n < 0 THEN <<"-">> \o Digits(-n) ELSE Digits(n)

\* str.zfill(width) of a string of digits
RECURSIVE ZFill(_, _)
ZFill(cs, width) == IF Len(cs) >= width THEN cs ELSE ZFill(<<"0">> \o cs, width)

\* str.ljust(width)
RECURSIVE LJust(_, _)
LJust(cs, width) == IF Len(cs) >= width THEN cs ELSE LJust(cs \o <<" ">>, width)

\* str(date): the model's dates are the first days of January 2024
DateStr(d) == <<"2", "0", "2", "4", "-", "0", "1", "-", "0">> \o Digits(d)

Abs(x) == IF x < 0 THEN -x ELSE x

SetMax(S) == CHOOSE x \in S : \A y \in S : y <= x

\* COALESCE(MAX(col), 0) over a set of non-NULL values
MaxOrZero(S) == IF S = {} THEN 0 ELSE SetMax(S)

\* ------------------------------------------------------------- decimals
\* _MONEY_Q = Decimal("0.0001"), in units of 0.00001
MoneyQ == 10

\* Decimal("1")
One == MoneyQ * 10000

\* _VALID_TVA
_VALID_TVA == {0, 11 * One, 21 * One}

\* A quantize that drops the fifth decimal (ROUND_DOWN)
_quantize_money_down(value) ==
  LET q == MoneyQ * (Abs(value) \div MoneyQ)
  IN IF value < 0 THEN -q ELSE q

\* Decimal.quantize(_MONEY_Q, rounding=ROUND_HALF_UP): the nearest multiple
\* of 0.0001, ties away from zero
_quantize_money(value) ==
  LET q == MoneyQ * ((2 * Abs(value) + MoneyQ) \div (2 * MoneyQ))
  IN IF value < 0 THEN -q ELSE q

\* str(Decimal) is not modelled digit by digit: a message shows a Decimal as
\* its count of 0.00001
MoneyStr(q) == IntStr(q)

\* Optional values (a Python None, an absent row)
None == <<>>
Some(v) == <<v>>

ValueError(msg) == [cls |-> "ValueError", msg |-> msg]
RuntimeError(msg) == [cls |-> "RuntimeError", msg |-> msg]
DatabaseError(msg) == [cls |-> "DatabaseError", msg |-> msg]

Raise(exc) == [ok |-> FALSE, error |-> exc]
Return(value) == [ok |-> TRUE, value |-> value]

\* ------------------------------------------------------------ validator
_normalize_fixed_char(value, max_length) ==
  LET trimmed == Strip(value)
  IN IF trimmed = <<>> THEN Raise(ValueError(<<"S", "t", "r", "i", "n", "g", " ", "f", "i", "e", "l", "d", " ", "c", "a", "n", "n", "o", "t", " ", "b", "e", " ", "e", "m", "p", "t", "y", ".">>))
     ELSE IF Len(trimmed) > max_length
       THEN Raise(ValueError(<<"V", "a", "l", "u", "e", " ", "'">> \o trimmed \o <<"'", " ", "e", "x", "c", "e", "e", "d", "s", " ", "m", "a", "x", " ", "l", "e", "n", "g", "t", "h", " ">>
                             \o Digits(max_length) \o <<".">>))
       ELSE Return(trimmed)

\* A normalizeCodArticol that strips the code before it looks at its length
normalizeCodArticolStripped(cod) ==
  LET trimmed == Strip(cod)
  IN IF trimmed = <<>> THEN Raise(ValueError(<<"e", "m", "p", "t", "y">>))
     ELSE IF Len(trimmed) = 16
       THEN IF IsDigit(SubSeq(trimmed, 1, 8)) THEN Return(trimmed)
            ELSE Raise(ValueError(<<"f", "i", "r", "s", "t", " ", "8">>))
     ELSE IF ~IsDigit(trimmed) THEN Raise(ValueError(<<"d", "i", "g", "i", "t", "s">>))
     ELSE IF Len(trimmed) > 8 THEN Raise(ValueError(<<"m", "a", "x", " ", "8">>))
     ELSE Return(LJust(ZFill(trimmed, 8), 16))

\* A normalizeCodArticol that pads a short code to 8 digits and stops there
normalizeCodArticolUnpadded(cod) ==
  LET raw == cod
      trimmed == Strip(raw)
  IN IF Len(raw) = 16
       THEN IF ~IsDigit(SubSeq(raw, 1, 8)) THEN Raise(ValueError(<<"f", "i", "r", "s", "t", " ", "8">>))
            ELSE Return(raw)
     ELSE IF trimmed = <<>> THEN Raise(ValueError(<<"e", "m", "p", "t", "y">>))
     ELSE IF ~IsDigit(trimmed) THEN Raise(ValueError(<<"d", "i", "g", "i", "t", "s">>))
     ELSE IF Len(trimmed) > 8 THEN Raise(ValueError(<<"m", "a", "x", " ", "8">>))
     ELSE Return(ZFill(trimmed, 8))

\* Lines 319-347
normalizeCodArticol(cod) ==
  LET raw == cod
      trimmed == Strip(raw)
  IN IF Len(raw) = 16
       THEN IF ~IsDigit(SubSeq(raw, 1, 8))
              THEN Raise(ValueError(<<"I", "n", "v", "a", "l", "i", "d", " ", "c", "o", "d", "_", "a", "r", "t", "i", "c", "o", "l", " ", "'">> \o raw
                                    \o <<"'", ".", " ", "F", "i", "r", "s", "t", " ", "8", " ", "c", "h", "a", "r", "s", " ", "m", "u", "s", "t", " ", "b", "e", " ", "d", "i", "g", "i", "t", "s", ".">>))
              ELSE Return(raw)
     ELSE IF trimmed = <<>>
       THEN Raise(ValueError(<<"c", "o", "d", "_", "a", "r", "t", "i", "c", "o", "l", " ", "c", "a", "n", "n", "o", "t", " ", "b", "e", " ", "e", "m", "p", "t", "y", ".">>))
     ELSE IF ~IsDigit(trimmed)
       THEN Raise(ValueError(<<"I", "n", "v", "a", "l", "i", "d", " ", "c", "o", "d", "_", "a", "r", "t", "i", "c", "o", "l", " ", "'">> \o trimmed
                             \o <<"'", ".", " ", "O", "n", "l", "y", " ", "d", "i", "g", "i", "t", "s", " ", "a", "r", "e", " ", "a", "l", "l", "o", "w", "e", "d", ".">>))
     ELSE IF Len(trimmed) > 8
       THEN Raise(ValueError(<<"I", "n", "v", "a", "l", "i", "d", " ", "c", "o", "d", "_", "a", "r", "t", "i", "c", "o", "l", " ", "'">> \o trimmed
                             \o <<"'", ".", " ", "E", "x", "p", "e", "c", "t", "e", "d", " ", "m", "a", "x", " ", "8", " ", "d", "i", "g", "i", "t", "s", " ", "o", "r", " ", "f", "i", "x", "e", "d", " ", "C", "H", "A", "R", "(", "1", "6", ")", ".">>))
     ELSE Return(LJust(ZFill(trimmed, 8), 16))

Sign(x) == IF x > 0 THEN 1 ELSE -1

RECURSIVE SumVal(_)
SumVal(produse) ==
  IF produse = <<>> THEN 0
  ELSE SumVal(SubSeq(produse, 1, Len(produse) - 1)) + produse[Len(produse)].val_produse

\* A loop body that does not compare the sign of the quantity
ProdusErrorOfAnySign(produs_raw, index, expected_sign) ==
  IF produs_raw.cantitate = 0 \/ produs_raw.val_produse = 0
    THEN Some(ValueError(<<"p", "r", "o", "d", "u", "s", "e", "[">> \o Digits(index)))
  ELSE IF ~normalizeCodArticol(produs_raw.cod_articol).ok
    THEN Some(normalizeCodArticol(produs_raw.cod_articol).error)
  ELSE None

\* The first failure of the loop body for produse[index], if any.
ProdusError(produs_raw, index, expected_sign) ==
  LET at == <<"p", "r", "o", "d", "u", "s", "e", "[">> \o Digits(index)
      cod == normalizeCodArticol(produs_raw.cod_articol)
  IN IF produs_raw.cantitate = 0
       THEN Some(ValueError(at \o <<"]", ".", "c", "a", "n", "t", "i", "t", "a", "t", "e", " ", "m", "u", "s", "t", " ", "b", "e", " ", "n", "o", "n", "-", "z", "e", "r", "o", ".">>))
     ELSE IF Sign(produs_raw.cantitate) # expected_sign
       THEN Some(ValueError(at \o <<"]", ".", "c", "a", "n", "t", "i", "t", "a", "t", "e", " ", "s", "i", "g", "n", " ", "m", "u", "s", "t", " ", "m", "a", "t", "c", "h", " ", "p", "a", "c", "h", "e", "t", ".", "c", "a", "n", "t", "i", "t", "a", "t", "e", "_", "p", "r", "o", "d", "u", "s", "a", " ", "s", "i", "g", "n", ".">>))
     ELSE IF produs_raw.val_produse = 0
       THEN Some(ValueError(at \o <<"]", ".", "v", "a", "l", "_", "p", "r", "o", "d", "u", "s", "e", " ", "m", "u", "s", "t", " ", "b", "e", " ", "n", "o", "n", "-", "z", "e", "r", "o", ".">>))
     ELSE IF ~cod.ok THEN Some(cod.error)
     ELSE None

ProdusInput(produs_raw) ==
  [cod_articol_raw |-> Strip(produs_raw.cod_articol),
   cod_articol_db |-> normalizeCodArticol(produs_raw.cod_articol).value,
   cantitate |-> produs_raw.cantitate,
   val_produse |-> produs_raw.val_produse]

\* datetime.strptime(value, "%Y-%m-%d").date(), for the dates of the model:
\* day d of January 2024 is the date d
_parse_date(value) ==
  IF /\ Len(value) = 10
     /\ SubSeq(value, 1, 9) = <<"2", "0", "2", "4", "-", "0", "1", "-", "0">>
     /\ IsDigit(SubSeq(value, 10, 10))
     /\ value[10] # "0"
    THEN Return(ToInt(SubSeq(value, 10, 10)))
    ELSE Raise(ValueError(<<"F", "i", "e", "l", "d", " ", "'", "p", "a", "c", "h", "e", "t", ".", "d", "a", "t", "a", "'", " ", "h", "a", "s", " ", "i", "n", "v", "a", "l", "i", "d", " ", "d", "a", "t", "e", " ", "f", "o", "r", "m", "a", "t", ".", " ", "U", "s", "e", " ", "Y", "Y", "Y", "Y", "-", "M", "M", "-", "D", "D", ".">>))

\* The payloads of the model are JSON objects with every field present and
\* the numeric fields numbers already.
validate_produce_pachet_input(payload) ==
  LET pachet_raw == payload.pachet
      produse_raw == payload.produse
      data == _parse_date(pachet_raw.data)
      denumire == _normalize_fixed_char(pachet_raw.denumire, 255)
      gestiune == _normalize_fixed_char(pachet_raw.gestiune, 16)
      status == Lower(Strip(pachet_raw.status))
      expected_sign == IF pachet_raw.cantitate_produsa > 0 THEN 1 ELSE -1
      bad == {i \in DOMAIN produse_raw : ProdusError(produse_raw[i], i, expected_sign) # None}
      first_bad == CHOOSE i \in bad : \A j \in bad : i <= j
      total_val_produse == SumVal(produse_raw)
  IN IF produse_raw = <<>>
       THEN Raise(ValueError(<<"F", "i", "e", "l", "d", " ", "'", "p", "r", "o", "d", "u", "s", "e", "'", " ", "i", "s", " ", "r", "e", "q", "u", "i", "r", "e", "d", " ", "a", "n", "d", " ", "m", "u", "s", "t", " ", "b", "e", " ", "a", " ", "n", "o", "n", "-", "e", "m", "p", "t", "y", " ", "a", "r", "r", "a", "y", ".">>))
     ELSE IF ~data.ok THEN data
     ELSE IF ~denumire.ok THEN denumire
     ELSE IF ~gestiune.ok THEN gestiune
     ELSE IF pachet_raw.id_doc <= 0
       THEN Raise(ValueError(<<"p", "a", "c", "h", "e", "t", ".", "i", "d", "_", "d", "o", "c", " ", "m", "u", "s", "t", " ", "b", "e", " ", ">", " ", "0", ".">>))
     ELSE IF status \notin {<<"p", "e", "n", "d", "i", "n", "g">>, <<"p", "r", "o", "c", "e", "s", "s", "i", "n", "g">>}
       THEN Raise(ValueError(<<"p", "a", "c", "h", "e", "t", ".", "s", "t", "a", "t", "u", "s", " ", "m", "u", "s", "t", " ", "b", "e", " ", "'", "p", "r", "o", "c", "e", "s", "s", "i", "n", "g", "'", " ", "o", "r", " ", "'", "p", "e", "n", "d", "i", "n", "g", "'", ".">>))
     ELSE IF pachet_raw.cantitate_produsa = 0
       THEN Raise(ValueError(<<"p", "a", "c", "h", "e", "t", ".", "c", "a", "n", "t", "i", "t", "a", "t", "e", "_", "p", "r", "o", "d", "u", "s", "a", " ", "m", "u", "s", "t", " ", "b", "e", " ", "n", "o", "n", "-", "z", "e", "r", "o", ".">>))
     ELSE IF pachet_raw.pret_vanz < 0
       THEN Raise(ValueError(<<"p", "a", "c", "h", "e", "t", ".", "p", "r", "e", "t", "_", "v", "a", "n", "z", " ", "m", "u", "s", "t", " ", "b", "e", " ", ">", "=", " ", "0", ".">>))
     ELSE IF pachet_raw.cost_total = 0
       THEN Raise(ValueError(<<"p", "a", "c", "h", "e", "t", ".", "c", "o", "s", "t", "_", "t", "o", "t", "a", "l", " ", "m", "u", "s", "t", " ", "b", "e", " ", "n", "o", "n", "-", "z", "e", "r", "o", ".">>))
     ELSE IF _quantize_money(pachet_raw.cota_tva) \notin _VALID_TVA
       THEN Raise(ValueError(<<"p", "a", "c", "h", "e", "t", ".", "c", "o", "t", "a", "_", "t", "v", "a", " ", "m", "u", "s", "t", " ", "b", "e", " ", "o", "n", "e", " ", "o", "f", ":", " ", "0", ",", " ", "1", "1", ",", " ", "2", "1", ".">>))
     ELSE IF bad # {} THEN Raise(ProdusError(produse_raw[first_bad], first_bad, expected_sign)[1])
     ELSE IF /\ _quantize_money(total_val_produse) # _quantize_money(pachet_raw.cost_total)
             /\ _quantize_money(Abs(total_val_produse)) # _quantize_money(Abs(pachet_raw.cost_total))
       THEN Raise(ValueError(
              <<"p", "a", "c", "h", "e", "t", ".", "c", "o", "s", "t", "_", "t", "o", "t", "a", "l", " ", "d", "o", "e", "s", " ", "n", "o", "t", " ", "m", "a", "t", "c", "h", " ", "S", "U", "M", "(", "p", "r", "o", "d", "u", "s", "e", "[", "*", "]", ".", "v", "a", "l", "_", "p", "r", "o", "d", "u", "s", "e", ")", ".", " ", "E", "x", "p", "e", "c", "t", "e", "d", " ">>
              \o MoneyStr(_quantize_money(total_val_produse)) \o <<",", " ", "g", "o", "t", " ">>
              \o MoneyStr(_quantize_money(pachet_raw.cost_total)) \o <<".">>))
     ELSE Return([pachet |-> [id_doc |-> pachet_raw.id_doc,
                              data |-> data.value,
                              denumire |-> denumire.value,
                              pret_vanz |-> pachet_raw.pret_vanz,
                              cota_tva |-> pachet_raw.cota_tva,
                              cost_total |-> pachet_raw.cost_total,
                              gestiune |-> gestiune.value,
                              cantitate_produsa |-> pachet_raw.cantitate_produsa,
                              status |-> status],
                  produse |-> [i \in DOMAIN produse_raw |-> ProdusInput(produse_raw[i])]])

\* ------------------------------------------------------------- database
\* A table is the sequence of its rows in insertion order; a row is a
\* function from the names of its non-NULL columns to their values.
Tables == {"ARTICOLE", "MISCARI", "BON_DET", "PRED_DET"}

EmptyTables == [t \in Tables |-> <<>>]

HasValue(row, column) == column \in DOMAIN row

Rows(table) == {table[i] : i \in DOMAIN table}

\* str.upper()
Upper(cs) == [i \in DOMAIN cs |-> UpperChar(cs[i])]

Ord(c) == CHOOSE i \in DOMAIN Ascii : Ascii[i] = c

\* a < b for strings
RECURSIVE StrLess(_, _)
StrLess(a, b) ==
  IF b = <<>> THEN FALSE
  ELSE IF a = <<>> THEN TRUE
  ELSE IF a[1] = b[1] THEN StrLess(Tail(a), Tail(b))
  ELSE Ord(a[1]) < Ord(b[1])

StrLE(a, b) == a = b \/ StrLess(a, b)

\* The columns of a relation in RDB$RELATION_FIELDS. The catalog sch holds the
\* column names of MISCARI and the catalog rows of BON_DET and PRED_DET.
RelationColumns(sch, relation_name) ==
  IF relation_name = "MISCARI" THEN sch.MISCARI
  ELSE IF relation_name \in {"BON_DET", "PRED_DET"}
    THEN {sch[relation_name][i].FIELD_NAME : i \in DOMAIN sch[relation_name]}
  ELSE {}

\* SQL_QUERIES["select_relation_fields"] and the loop of _get_relation_fields
_get_relation_fields(sch, relation_name) ==
  [i \in DOMAIN sch[relation_name] |->
     [name |-> sch[relation_name][i].FIELD_NAME,
      required |-> sch[relation_name][i].NULL_FLAG = 1
                   /\ sch[relation_name][i].DEFAULT_SOURCE = None,
      identity |-> sch[relation_name][i].IDENTITY_TYPE >= 0,
      field_type |-> sch[relation_name][i].FIELD_TYPE]]

\* SQL_QUERIES["check_miscari_has_pret_column"]: COUNT(*) > 0
_miscari_has_pret_column(sch) == "PRET" \in RelationColumns(sch, "MISCARI")

_miscari_has_id_u_column(sch) == "ID_U" \in RelationColumns(sch, "MISCARI")

\* SQL_QUERIES["select_pachet_by_denumire"]: FIRST 1 ... ORDER BY COD
select_pachet_by_denumire(v, denumire) ==
  LET found == {r \in Rows(v.ARTICOLE) :
                  HasValue(r, "DENUMIRE") /\ Strip(r.DENUMIRE) = Strip(denumire)}
  IN IF found = {} THEN None
     ELSE Some(CHOOSE r \in found : \A o \in found : StrLE(r.COD, o.COD))

\* SQL_QUERIES["select_max_articole_cod8"]: the rows the WHERE clause keeps
Cod8Rows(v) ==
  {r \in Rows(v.ARTICOLE) :
     /\ Len(Strip(r.COD)) >= 8
     /\ StrLE(<<"0", "0", "0", "0", "0", "0", "0", "0">>, SubSeq(Strip(r.COD), 1, 8))
     /\ StrLE(SubSeq(Strip(r.COD), 1, 8), <<"9", "9", "9", "9", "9", "9", "9", "9">>)}

\* CAST(... AS INTEGER) raises a conversion error on a string that is no number
select_max_articole_cod8(v) ==
  IF \E r \in Cod8Rows(v) : ~IsDigit(SubSeq(Strip(r.COD), 1, 8))
    THEN Raise(DatabaseError(<<"c", "o", "n", "v", "e", "r", "s", "i", "o", "n", " ", "e", "r", "r", "o", "r", " ", "f", "r", "o", "m", " ", "s", "t", "r", "i", "n", "g">>))
    ELSE Return(MaxOrZero({ToInt(SubSeq(Strip(r.COD), 1, 8)) : r \in Cod8Rows(v)}))

\* A getNextNrDoc whose query forgets the date
getNextNrDocOfAllDates(v, data_doc) ==
  MaxOrZero({r.NR_DOC : r \in {m \in Rows(v.MISCARI) : m.TIP_DOC = <<"B", "P">>}}) + 1

\* SQL_QUERIES["select_max_nr_doc_bp_by_date"] and getNextNrDoc
getNextNrDoc(v, data_doc) ==
  LET max_nr == MaxOrZero({r.NR_DOC : r \in {m \in Rows(v.MISCARI) :
                             m.DATA = data_doc /\ m.TIP_DOC = <<"B", "P">>}})
  IN max_nr + 1

\* A _get_next_miscari_id_u that gives the greatest ID_U, not the one after it
_get_last_miscari_id_u(v) ==
  MaxOrZero({r.ID_U : r \in {m \in Rows(v.MISCARI) : HasValue(m, "ID_U")}})

\* SQL_QUERIES["select_max_miscari_id_u"]
_get_next_miscari_id_u(v) ==
  LET current_max == MaxOrZero({r.ID_U : r \in {m \in Rows(v.MISCARI) : HasValue(m, "ID_U")}})
  IN current_max + 1

\* A _get_next_miscari_id that reads the greatest ID of the BP rows only
_get_next_miscari_id_of_bp(v) ==
  MaxOrZero({r.ID : r \in {m \in Rows(v.MISCARI) : m.TIP_DOC = <<"B", "P">>}}) + 1

\* SQL_QUERIES["select_max_miscari_id"]
_get_next_miscari_id(v) ==
  LET current_max == MaxOrZero({r.ID : r \in Rows(v.MISCARI)})
  IN current_max + 1

\* SQL_QUERIES["select_max_pred_det_nr"]
_get_next_pred_det_nr(v) ==
  LET current_max == MaxOrZero({r.NR : r \in {m \in Rows(v.PRED_DET) : HasValue(m, "NR")}})
  IN current_max + 1

\* SQL_QUERIES["select_max_bon_det_id_u"]
_get_next_bon_det_id_u(v) ==
  LET current_max == MaxOrZero({r.ID_U : r \in {m \in Rows(v.BON_DET) : HasValue(m, "ID_U")}})
  IN current_max + 1

\* SQL_QUERIES["select_pred_det_existing_nr_doc_by_id_doc"] and
\* ["select_pred_det_existing_nr_doc_by_id_unic"]: the statement raises when
\* PRED_DET lacks the key column or NR_DOC; else FIRST 1 NR_DOC ... ORDER BY
\* NR_DOC DESC, a NULL NR_DOC read as 0 (int(pred_row[0] or 0))
select_pred_det_existing_nr_doc(v, sch, key_column, id_doc) ==
  LET found == {r \in Rows(v.PRED_DET) : HasValue(r, key_column) /\ r[key_column] = id_doc}
  IN IF {key_column, "NR_DOC"} \subseteq RelationColumns(sch, "PRED_DET")
       THEN Return(IF found = {} THEN None
                   ELSE Some(MaxOrZero({r.NR_DOC : r \in {f \in found : HasValue(f, "NR_DOC")}})))
       ELSE Raise(DatabaseError(<<"D", "y", "n", "a", "m", "i", "c", " ", "S", "Q", "L", " ", "E", "r", "r", "o", "r", ":", " ", "C", "o", "l", "u", "m", "n", " ", "u", "n", "k", "n", "o", "w", "n">>))

\* SQL_QUERIES["select_doc_counts_by_date_nr_doc"]
select_doc_counts_by_date_nr_doc(v, data, nr_doc) ==
  LET at == {i \in DOMAIN v.MISCARI : v.MISCARI[i].DATA = data /\ v.MISCARI[i].NR_DOC = nr_doc}
  IN [bc_count |-> Cardinality({i \in at : v.MISCARI[i].TIP_DOC = <<"B", "C">>}),
      bp_count |-> Cardinality({i \in at : v.MISCARI[i].TIP_DOC = <<"B", "P">>})]

\* SQL_QUERIES["select_bp_doc_by_date_nr_doc"]: FIRST 1 ... ORDER BY ID DESC
select_bp_doc_by_date_nr_doc(v, data, nr_doc) ==
  LET found == {r \in Rows(v.MISCARI) :
                  r.DATA = data /\ r.NR_DOC = nr_doc /\ r.TIP_DOC = <<"B", "P">>}
  IN IF found = {} THEN None
     ELSE Some(CHOOSE r \in found : \A o \in found : o.ID <= r.ID)

\* SQL_QUERIES["select_articol_details_by_cod"]: FIRST 1 ... ORDER BY COD
select_articol_details_by_cod(v, cod) ==
  LET found == {r \in Rows(v.ARTICOLE) : r.COD = cod \/ Strip(r.COD) = Strip(cod)}
  IN IF found = {} THEN None
     ELSE Some(CHOOSE r \in found : \A o \in found : StrLE(r.COD, o.COD))

\* ----------------------------------------------------------- exceptions
\* An _is_unique_violation that takes every error for a unique-key violation
_is_unique_violation_of_any(exc) == Len(exc.msg) >= 0

\* _is_unique_violation(exc): str(exc).lower() holds one of the four markers
_is_unique_violation(exc) ==
  LET message == Lower(exc.msg)
  IN \/ Contains(message, <<"v", "i", "o", "l", "a", "t", "i", "o", "n", " ", "o", "f", " ", "p", "r", "i", "m", "a", "r", "y", " ", "o", "r", " ", "u", "n", "i", "q", "u", "e", " ", "k", "e", "y", " ", "c", "o", "n", "s", "t", "r", "a", "i", "n", "t">>)
     \/ Contains(message, <<"u", "n", "i", "q", "u", "e", " ", "k", "e", "y">>)
     \/ Contains(message, <<"d", "u", "p", "l", "i", "c", "a", "t", "e">>)
     \/ Contains(message, <<"s", "q", "l", "s", "t", "a", "t", "e", " ", "=", " ", "2", "3", "0", "0", "0">>)

\* The error Firebird raises for an INSERT that breaks a unique constraint
UniqueKeyError(table_name) ==
  DatabaseError(<<"v", "i", "o", "l", "a", "t", "i", "o", "n", " ", "o", "f", " ", "P", "R", "I", "M", "A", "R", "Y", " ", "o", "r", " ", "U", "N", "I", "Q", "U", "E", " ", "K", "E", "Y", " ", "c", "o", "n", "s", "t", "r", "a", "i", "n", "t", " ", "o", "n", " ", "t", "a", "b", "l", "e", " ">>
                \o Chars(table_name))

\* An error of the server or the connection that is no constraint violation
ConnectionLost == DatabaseError(<<"c", "o", "n", "n", "e", "c", "t", "i", "o", "n", " ", "l", "o", "s", "t", " ", "t", "o", " ", "d", "a", "t", "a", "b", "a", "s", "e">>)

\* A sign that takes every request for a production
_operation_sign_of_production(pachet) == 1

\* _operation_sign (lines 281-283)
_operation_sign(pachet) == IF pachet.cantitate_produsa < 0 THEN -1 ELSE 1

\* str(row[0] or "") padded as in ensurePachetInArticole and
\* _find_existing_document: cod.strip().ljust(16) when shorter than 16, cut at 16
PadCod(cod) == SubSeq(IF Len(cod) < 16 THEN LJust(Strip(cod), 16) ELSE cod, 1, 16)

\* ------------------------------------------------------------- resolver
\* Lines 531-543: the row of the two PRED_DET lookups. fails[1] and fails[2]
\* say whether the first and the second lookup raise for a reason of the
\* server (they also raise when PRED_DET lacks the column); either way the
\* exception is swallowed.
PredRow(by_id_doc, by_id_unic, fails) ==
  IF ~fails[1] /\ by_id_doc.ok /\ by_id_doc.value # None THEN by_id_doc.value
  ELSE IF fails[2] \/ ~by_id_unic.ok THEN None
  ELSE by_id_unic.value

\* Lines 556-590
ExistingDocument(pachet, nr_doc_existing, counts, bp_row) ==
  LET cod_pachet_db == IF HasValue(bp_row[1], "COD_ART") THEN bp_row[1].COD_ART ELSE <<>>
  IN IF counts.bc_count = 0 /\ counts.bp_count = 0 THEN Return(None)
     ELSE IF counts.bc_count = 0 \/ counts.bp_count = 0
       THEN Raise(RuntimeError(
              <<"E", "x", "i", "s", "t", "i", "n", "g", " ", "p", "r", "o", "d", "u", "c", "t", "i", "o", "n", " ", "d", "o", "c", "u", "m", "e", "n", "t", " ", "i", "s", " ", "i", "n", "c", "o", "n", "s", "i", "s", "t", "e", "n", "t", " ", "(", "i", "d", "_", "d", "o", "c", "=">>
              \o IntStr(pachet.id_doc) \o <<",", " ", "d", "a", "t", "a", "=">> \o DateStr(pachet.data)
              \o <<",", " ", "B", "C", "=">> \o IntStr(counts.bc_count)
              \o <<",", " ", "B", "P", "=">> \o IntStr(counts.bp_count) \o <<")", ".">>))
     ELSE IF bp_row = None
       THEN Raise(RuntimeError(
              <<"E", "x", "i", "s", "t", "i", "n", "g", " ", "p", "r", "o", "d", "u", "c", "t", "i", "o", "n", " ", "d", "o", "c", "u", "m", "e", "n", "t", " ", "w", "a", "s", " ", "f", "o", "u", "n", "d", " ", "i", "n", " ", "P", "R", "E", "D", "_", "D", "E", "T", " ", "b", "u", "t", " ", "B", "P", " ", "r", "o", "w", " ", "i", "s", " ", "m", "i", "s", "s", "i", "n", "g", " ", "i", "n", " ", "M", "I", "S", "C", "A", "R", "I", " ", "(", "i", "d", "_", "d", "o", "c", "=">>
              \o IntStr(pachet.id_doc) \o <<",", " ", "d", "a", "t", "a", "=">> \o DateStr(pachet.data)
              \o <<",", " ", "n", "r", "_", "d", "o", "c", "=">> \o IntStr(nr_doc_existing) \o <<")", ".">>))
     ELSE Return(Some([miscari_id |-> bp_row[1].ID,
                       nr_doc |-> nr_doc_existing,
                       cod_pachet_db |-> IF cod_pachet_db = <<>> THEN <<>> ELSE PadCod(cod_pachet_db),
                       bc_count |-> counts.bc_count,
                       bp_count |-> counts.bp_count]))

\* Lines 545-555
LookedUp(v, pachet, pred_row) ==
  IF pred_row = None THEN Return(None)
  ELSE IF pred_row[1] <= 0 THEN Return(None)
  ELSE ExistingDocument(pachet, pred_row[1],
                        select_doc_counts_by_date_nr_doc(v, pachet.data, pred_row[1]),
                        select_bp_doc_by_date_nr_doc(v, pachet.data, pred_row[1]))

\* _find_existing_document on the rows v the transaction sees
_find_existing_document(v, sch, pachet, fails) ==
  LookedUp(v, pachet,
           PredRow(select_pred_det_existing_nr_doc(v, sch, "ID_DOC", pachet.id_doc),
                   select_pred_det_existing_nr_doc(v, sch, "ID_UNIC", pachet.id_doc),
                   fails))

\* --------------------------------------------------------------- writer
\* The ARTICOLE row ensurePachetInArticole inserts for a package that is absent
ArticolPachetRow(code_db, pachet) ==
  [COD |-> code_db, DENUMIRE |-> pachet.denumire, UM |-> <<"B", "U", "C">>,
   TVA |-> pachet.cota_tva,
   DEN_TIP |-> <<"P", "r", "o", "d", "u", "s", "e", " ", "f", "i", "n", "i", "t", "e">>,
   TIP |-> <<"0", "4">>]

\* An article code taken from the document: the greatest code plus id_doc
EnsuredByDocument(pachet, allow_create, row, max_code) ==
  LET code_db == LJust(ZFill(Digits(max_code.value + pachet.id_doc), 8), 16)
  IN IF row # None
       THEN [exc |-> None, cod |-> PadCod(row[1].COD), ins |-> None]
     ELSE IF ~allow_create \/ ~max_code.ok
       THEN [exc |-> Some(RuntimeError(pachet.denumire)), cod |-> <<>>, ins |-> None]
     ELSE [exc |-> None, cod |-> code_db,
           ins |-> Some([t |-> "ARTICOLE", row |-> ArticolPachetRow(code_db, pachet)])]

\* Lines 468-498, row and max_code being what the two SELECTs gave. The result
\* names the code returned or the exception raised, and the row to insert, if
\* there is one.
Ensured(pachet, allow_create, row, max_code) ==
  LET code_db == LJust(ZFill(Digits(max_code.value + 1), 8), 16)
  IN IF row # None
       THEN [exc |-> None, cod |-> PadCod(row[1].COD), ins |-> None]
     ELSE IF ~allow_create
       THEN [exc |-> Some(RuntimeError(
               <<"P", "a", "c", "k", "a", "g", "e", " ", "a", "r", "t", "i", "c", "l", "e", " ", "d", "o", "e", "s", " ", "n", "o", "t", " ", "e", "x", "i", "s", "t", " ", "i", "n", " ", "A", "R", "T", "I", "C", "O", "L", "E", " ", "f", "o", "r", " ", "s", "t", "o", "r", "n", "o", "/", "d", "e", "s", "f", "a", "c", "e", "r", "e", " ", "p", "r", "o", "d", "u", "c", "t", "i", "o", "n", " ", "(", "d", "e", "n", "u", "m", "i", "r", "e", "=", "'">>
               \o pachet.denumire \o <<"'", ")", ".">>)),
             cod |-> <<>>, ins |-> None]
     ELSE IF ~max_code.ok
       THEN [exc |-> Some(max_code.error), cod |-> <<>>, ins |-> None]
     ELSE [exc |-> None, cod |-> code_db,
           ins |-> Some([t |-> "ARTICOLE", row |-> ArticolPachetRow(code_db, pachet)])]

\* ensurePachetInArticole. When the INSERT raises, lines 499-511 raise what it
\* raised: the error is no uniqueness violation, or it is one and the re-read
\* of line 504 sees the rows of line 466 again (the failed INSERT left none,
\* and the snapshot does not move), so retry_row is empty.
ensurePachetInArticole(v, pachet, allow_create) ==
  Ensured(pachet, allow_create, select_pachet_by_denumire(v, pachet.denumire),
          select_max_articole_cod8(v))

\* A default that is 0 for a DATE column too
_default_zero_for_field_type(field_type, pachet) ==
  IF field_type \in {7, 8, 10, 12, 16, 23, 27} THEN Some(0)
  ELSE IF field_type = 13 THEN Some([hour |-> 0, minute |-> 0, second |-> 0])
  ELSE IF field_type = 35 THEN Some([date |-> pachet.data, hour |-> 0, minute |-> 0, second |-> 0])
  ELSE IF field_type \in {14, 37} THEN Some(<<>>)
  ELSE None

\* _default_value_for_field_type
_default_value_for_field_type(field_type, pachet) ==
  IF field_type \in {7, 8, 10, 16, 23, 27} THEN Some(0)
  ELSE IF field_type = 12 THEN Some(pachet.data)
  ELSE IF field_type = 13 THEN Some([hour |-> 0, minute |-> 0, second |-> 0])
  ELSE IF field_type = 35 THEN Some([date |-> pachet.data, hour |-> 0, minute |-> 0, second |-> 0])
  ELSE IF field_type \in {14, 37} THEN Some(<<>>)
  ELSE None

\* dict lookup
DictHas(dict, key) == \E i \in DOMAIN dict : dict[i][1] = key
DictGet(dict, key) == dict[CHOOSE i \in DOMAIN dict : dict[i][1] = key][2]

StartsWith(cs, prefix) == Len(cs) >= Len(prefix) /\ SubSeq(cs, 1, Len(prefix)) = prefix
EndsWith(cs, suffix) ==
  Len(cs) >= Len(suffix) /\ SubSeq(cs, Len(cs) - Len(suffix) + 1, Len(cs)) = suffix

_pred_det_field_value(field_name, pachet, first_produs, cod_pachet_db, miscari_doc_id, nr_doc, pred_det_nr, line_no) ==
  LET upper == Upper(Chars(field_name))
      sign == _operation_sign(pachet)
      qty == sign * Abs(pachet.cantitate_produsa)
      sale_value == sign * Abs(pachet.pret_vanz)
      cost_total_value == sign * Abs(pachet.cost_total)
      unit_price == sale_value
      direct_values == <<
        <<<<"I", "D", "_", "D", "O", "C">>, Some(pachet.id_doc)>>,
        <<<<"I", "D", "D", "O", "C">>, Some(pachet.id_doc)>>,
        <<<<"D", "O", "C", "_", "I", "D">>, Some(pachet.id_doc)>>,
        <<<<"I", "D", "_", "D", "O", "C", "U", "M", "E", "N", "T">>, Some(pachet.id_doc)>>,
        <<<<"I", "D">>, Some(miscari_doc_id)>>,
        <<<<"I", "D", "_", "U", "N", "I", "C">>, Some(miscari_doc_id)>>,
        <<<<"I", "D", "U", "N", "I", "C">>, Some(miscari_doc_id)>>,
        <<<<"V", "A", "L", "I", "D", "A", "T">>, Some(<<"V">>)>>,
        <<<<"D", "A", "T", "A">>, Some(pachet.data)>>,
        <<<<"D", "A", "T", "A", "_", "D", "O", "C">>, Some(pachet.data)>>,
        <<<<"N", "R", "_", "D", "O", "C">>, Some(nr_doc)>>,
        <<<<"N", "R">>, pred_det_nr>>,
        <<<<"T", "I", "P", "_", "D", "O", "C">>, Some(<<"B", "P">>)>>,
        <<<<"T", "I", "P", "D", "O", "C">>, Some(<<"B", "P">>)>>,
        <<<<"G", "E", "S", "T", "I", "U", "N", "E">>, Some(pachet.gestiune)>>,
        <<<<"G", "E", "S", "T">>, Some(pachet.gestiune)>>,
        <<<<"D", "E", "N", "_", "G", "E", "S", "T">>, Some(<<"G", "E", "S", "T", "I", "U", "N", "E", "A", " ", "1">>)>>,
        <<<<"D", "E", "N", "G", "E", "S", "T">>, Some(<<"G", "E", "S", "T", "I", "U", "N", "E", "A", " ", "1">>)>>,
        <<<<"D", "E", "N", "G", "E", "S", "T", "I", "U", "N", "E">>, Some(<<"G", "E", "S", "T", "I", "U", "N", "E", "A", " ", "1">>)>>,
        <<<<"D", "E", "N", "_", "T", "I", "P">>, Some(<<"P", "r", "o", "d", "u", "s", "e", " ", "f", "i", "n", "i", "t", "e">>)>>,
        <<<<"D", "E", "N", "T", "I", "P">>, Some(<<"P", "r", "o", "d", "u", "s", "e", " ", "f", "i", "n", "i", "t", "e">>)>>,
        <<<<"U", "M">>, Some(<<"B", "U", "C">>)>>,
        <<<<"U", "N", "I", "T", "A", "T", "E", "_", "M", "A", "S", "U", "R", "A">>, Some(<<"B", "U", "C">>)>>,
        <<<<"U", "N", "I", "T", "A", "T", "E">>, Some(<<"B", "U", "C">>)>>,
        <<<<"C", "A", "N", "T", "I", "T", "A", "T", "E">>, Some(qty)>>,
        <<<<"C", "A", "N", "T">>, Some(qty)>>,
        <<<<"Q", "T", "Y">>, Some(qty)>>,
        <<<<"V", "A", "L", "O", "A", "R", "E">>, Some(sale_value)>>,
        <<<<"V", "A", "L">>, Some(sale_value)>>,
        <<<<"C", "O", "S", "T">>, Some(cost_total_value)>>,
        <<<<"C", "O", "S", "T", "_", "T", "O", "T", "A", "L">>, Some(cost_total_value)>>,
        <<<<"V", "A", "L", "_", "C", "O", "N", "S", "U", "M">>, Some(cost_total_value)>>,
        <<<<"V", "A", "L", "_", "C", "O", "N", "S", "U", "M", "U", "R", "I">>, Some(cost_total_value)>>,
        <<<<"T", "O", "T", "A", "L", "_", "C", "O", "N", "S", "U", "M">>, Some(cost_total_value)>>,
        <<<<"C", "O", "N", "S", "U", "M">>, Some(cost_total_value)>>,
        <<<<"P", "R", "E", "T">>, Some(unit_price)>>,
        <<<<"P", "R", "E", "T", "_", "V", "A", "N", "Z">>, Some(unit_price)>>,
        <<<<"P", "R", "E", "T", "_", "U", "N", "I", "T", "A", "R">>, Some(unit_price)>>,
        <<<<"C", "O", "S", "T", "_", "U", "N", "I", "T", "A", "R">>, Some(unit_price)>>,
        <<<<"T", "V", "A">>, Some(pachet.cota_tva)>>,
        <<<<"C", "O", "T", "A", "_", "T", "V", "A">>, Some(pachet.cota_tva)>>,
        <<<<"D", "E", "N", "U", "M", "I", "R", "E">>, Some(pachet.denumire)>>,
        <<<<"D", "E", "N", "_", "A", "R", "T">>, Some(pachet.denumire)>>,
        <<<<"N", "R", "_", "P", "O", "Z">>, Some(line_no)>>,
        <<<<"P", "O", "Z", "I", "T", "I", "E">>, Some(line_no)>>,
        <<<<"N", "R", "_", "L", "I", "N", "I", "E">>, Some(line_no)>>,
        <<<<"L", "I", "N", "I", "E">>, Some(line_no)>>
      >>
  IN IF DictHas(direct_values, upper) THEN DictGet(direct_values, upper)
     ELSE IF Contains(upper, <<"C", "O", "D">>)
       THEN IF \E key \in {<<"C", "O", "M", "P">>, <<"M", "A", "T">>, <<"M", "A", "T", "E", "R">>, <<"M", "P">>} :
                 Contains(upper, key)
              THEN Some(first_produs.cod_articol_db)
              ELSE Some(cod_pachet_db)
     ELSE IF \/ Contains(upper, <<"C", "O", "N", "S", "U", "M">>)
             \/ EndsWith(upper, <<"_", "C", "O", "S", "T">>)
             \/ StartsWith(upper, <<"C", "O", "S", "T", "_">>)
       THEN Some(cost_total_value)
     ELSE None

_bon_det_field_value(field_name, pachet, produs, miscari_doc_id, nr_doc, line_no, bon_det_id_u, qty_consum, unit_price, line_value, produs_denumire, produs_um) ==
  LET upper == Upper(Chars(field_name))
      direct_values == <<
        <<<<"I", "D">>, Some(miscari_doc_id)>>,
        <<<<"I", "D", "_", "U", "N", "I", "C">>, Some(miscari_doc_id)>>,
        <<<<"I", "D", "U", "N", "I", "C">>, Some(miscari_doc_id)>>,
        <<<<"I", "D", "_", "D", "O", "C">>, Some(pachet.id_doc)>>,
        <<<<"I", "D", "D", "O", "C">>, Some(pachet.id_doc)>>,
        <<<<"I", "D", "_", "U">>, bon_det_id_u>>,
        <<<<"I", "D", "U">>, bon_det_id_u>>,
        <<<<"V", "A", "L", "I", "D", "A", "T">>, Some(<<"V">>)>>,
        <<<<"D", "A", "T", "A">>, Some(pachet.data)>>,
        <<<<"D", "A", "T", "A", "_", "D", "O", "C">>, Some(pachet.data)>>,
        <<<<"N", "R", "_", "D", "O", "C">>, Some(nr_doc)>>,
        <<<<"T", "I", "P", "_", "D", "O", "C">>, Some(<<"B", "C">>)>>,
        <<<<"T", "I", "P", "D", "O", "C">>, Some(<<"B", "C">>)>>,
        <<<<"G", "E", "S", "T", "I", "U", "N", "E">>, Some(<<"G", "e", "s", "t", "i", "u", "n", "e", "a", " ", "1">>)>>,
        <<<<"G", "E", "S", "T">>, Some(<<"G", "e", "s", "t", "i", "u", "n", "e", "a", " ", "1">>)>>,
        <<<<"D", "E", "N", "_", "G", "E", "S", "T">>, Some(<<"G", "e", "s", "t", "i", "u", "n", "e", "a", " ", "1">>)>>,
        <<<<"D", "E", "N", "G", "E", "S", "T">>, Some(<<"G", "e", "s", "t", "i", "u", "n", "e", "a", " ", "1">>)>>,
        <<<<"D", "E", "N", "G", "E", "S", "T", "I", "U", "N", "E">>, Some(<<"G", "e", "s", "t", "i", "u", "n", "e", "a", " ", "1">>)>>,
        <<<<"C", "O", "D">>, Some(produs.cod_articol_db)>>,
        <<<<"C", "O", "D", "_", "A", "R", "T">>, Some(produs.cod_articol_db)>>,
        <<<<"C", "O", "D", "A", "R", "T">>, Some(produs.cod_articol_db)>>,
        <<<<"C", "O", "D", "_", "A", "R", "T", "I", "C", "O", "L">>, Some(produs.cod_articol_db)>>,
        <<<<"D", "E", "N", "U", "M", "I", "R", "E">>, Some(produs_denumire)>>,
        <<<<"D", "E", "N", "_", "A", "R", "T">>, Some(produs_denumire)>>,
        <<<<"D", "E", "N", "A", "R", "T">>, Some(produs_denumire)>>,
        <<<<"U", "M">>, Some(produs_um)>>,
        <<<<"U", "N", "I", "T", "A", "T", "E", "_", "M", "A", "S", "U", "R", "A">>, Some(produs_um)>>,
        <<<<"U", "N", "I", "T", "A", "T", "E">>, Some(produs_um)>>,
        <<<<"D", "E", "N", "_", "T", "I", "P">>, Some(<<"M", "a", "t", "e", "r", "i", "i", " ", "p", "r", "i", "m", "e">>)>>,
        <<<<"D", "E", "N", "T", "I", "P">>, Some(<<"M", "a", "t", "e", "r", "i", "i", " ", "p", "r", "i", "m", "e">>)>>,
        <<<<"C", "A", "N", "T", "I", "T", "A", "T", "E">>, Some(qty_consum)>>,
        <<<<"C", "A", "N", "T">>, Some(qty_consum)>>,
        <<<<"Q", "T", "Y">>, Some(qty_consum)>>,
        <<<<"P", "R", "E", "T">>, Some(unit_price)>>,
        <<<<"P", "R", "E", "T", "_", "U", "N", "I", "T", "A", "R">>, Some(unit_price)>>,
        <<<<"P", "R", "E", "T", "_", "M", "E", "D", "I", "U">>, Some(unit_price)>>,
        <<<<"V", "A", "L", "O", "A", "R", "E">>, Some(line_value)>>,
        <<<<"V", "A", "L">>, Some(line_value)>>,
        <<<<"C", "O", "S", "T">>, Some(line_value)>>,
        <<<<"C", "O", "S", "T", "_", "T", "O", "T", "A", "L">>, Some(line_value)>>,
        <<<<"I", "S", "_", "P", "R", "O", "D">>, Some(1)>>,
        <<<<"I", "S", "P", "R", "O", "D">>, Some(1)>>,
        <<<<"N", "R", "_", "P", "O", "Z">>, Some(line_no)>>,
        <<<<"P", "O", "Z", "I", "T", "I", "E">>, Some(line_no)>>,
        <<<<"N", "R", "_", "L", "I", "N", "I", "E">>, Some(line_no)>>,
        <<<<"L", "I", "N", "I", "E">>, Some(line_no)>>
      >>
  IN IF DictHas(direct_values, upper) THEN DictGet(direct_values, upper)
     ELSE IF Contains(upper, <<"C", "O", "D">>) THEN Some(produs.cod_articol_db)
     ELSE IF Contains(upper, <<"G", "E", "S", "T">>) THEN Some(<<"G", "e", "s", "t", "i", "u", "n", "e", "a", " ", "1">>)
     ELSE IF \/ Contains(upper, <<"D", "E", "N">>) /\ Contains(upper, <<"T", "I", "P">>)
             \/ Contains(upper, <<"M", "A", "T", "E", "R">>)
       THEN Some(<<"M", "a", "t", "e", "r", "i", "i", " ", "p", "r", "i", "m", "e">>)
     ELSE IF upper \in {<<"D", "E", "N", "U", "M", "I", "R", "E", "_", "A", "R", "T", "I", "C", "O", "L">>, <<"N", "U", "M", "E", "_", "A", "R", "T", "I", "C", "O", "L">>} THEN Some(produs_denumire)
     ELSE IF upper \in {<<"U", "N", "I", "T", "A", "T", "E", "_", "D", "E", "_", "M", "A", "S", "U", "R", "A">>, <<"U", "_", "M">>} THEN Some(produs_um)
     ELSE IF Contains(upper, <<"C", "A", "N", "T">>) \/ upper = <<"Q", "T", "Y">> THEN Some(qty_consum)
     ELSE IF StartsWith(upper, <<"P", "R", "E", "T">>) THEN Some(unit_price)
     ELSE IF Contains(upper, <<"V", "A", "L">>) \/ Contains(upper, <<"C", "O", "S", "T">>) THEN Some(line_value)
     ELSE IF Contains(upper, <<"P", "R", "O", "D">>) /\ Contains(upper, <<"I", "S">>) THEN Some(1)
     ELSE IF EndsWith(upper, <<"I", "D", "_", "U">>) \/ upper = <<"I", "D", "_", "U">> THEN bon_det_id_u
     ELSE None

\* --------------------------------------------- _execute_produce_pachet_once
\* The locals of one attempt. index counts the BC rows inserted so far plus
\* one, line_no is the BON_DET line being written, reread says that line 504
\* of ensurePachetInArticole ran and retry_row is what line 505 fetched.
NoLocals ==
  [existing |-> None, cod_pachet_db |-> <<>>, miscari_doc_id |-> 0, nr_doc |-> 0,
   miscari_has_pret |-> FALSE, miscari_has_id_u |-> FALSE,
   next_id_u |-> None, id_u_start |-> None, index |-> 0, line_no |-> 0,
   bon_next_id_u |-> None, bon_id_u_start |-> None, bon_inserted |-> 0,
   reread |-> FALSE, retry_row |-> None,
   result |-> None]

\* What one step of an attempt does: the label to go on from, the locals, the
\* exception raised, if any, and the row to insert, if any.
Went(label, locals, ins) == [pc |-> label, loc |-> locals, exc |-> None, ins |-> ins]

Raised(e, locals) == [pc |-> "except", loc |-> locals, exc |-> Some(e), ins |-> None]

\* The rows the cursor sees after its own INSERT
WithInsert(v, ins) ==
  IF ins = None THEN v ELSE [v EXCEPT ![ins[1].t] = Append(@, ins[1].row)]

\* Lines 1025-1039
SkippedResult(pachet, existing, cod_pachet_db) ==
  [success |-> TRUE,
   message |-> <<"p", "r", "o", "d", "u", "c", "e", "P", "a", "c", "h", "e", "t", " ", "s", "k", "i", "p", "p", "e", "d", ":", " ", "d", "o", "c", "u", "m", "e", "n", "t", " ", "a", "l", "r", "e", "a", "d", "y", " ", "i", "m", "p", "o", "r", "t", "e", "d", ".">>,
   codPachet |-> _trim_db_char(cod_pachet_db),
   nrDoc |-> existing.nr_doc,
   idDoc |-> pachet.id_doc,
   miscariId |-> existing.miscari_id,
   bonDetInserted |-> 0,
   predDetInserted |-> 0,
   alreadyImported |-> TRUE,
   idUStart |-> None, idUEnd |-> None, bonDetIdUStart |-> None, bonDetIdUEnd |-> None]

\* Lines 1020-1039, existing being what line 1019 gave
Found(pachet, locals, existing) ==
  IF ~existing.ok THEN Raised(existing.error, locals)
  ELSE IF existing.value = None THEN Went("article", locals, None)
  ELSE IF existing.value[1].cod_pachet_db = <<>>
    THEN Went("article", [locals EXCEPT !.existing = existing.value], None)
  ELSE Went("commit",
            [locals EXCEPT !.existing = existing.value,
                           !.result = Some(SkippedResult(pachet, existing.value[1],
                                                         existing.value[1].cod_pachet_db))],
            None)

\* Lines 1017-1039: the resolver, and the early return when the document exists
\* with a usable COD_ART
FindStep(v, sch, req, locals, fails) ==
  Found(req.pachet, locals, _find_existing_document(v, sch, req.pachet, fails))

\* An attempt that takes the optional columns of MISCARI from what its locals
\* hold and does not ask the catalog
AllocatedFromLocals(w, sch, pachet, locals, ensured) ==
  LET next_id_u == IF locals.miscari_has_id_u THEN Some(_get_next_miscari_id_u(w)) ELSE None
  IN Went("bc",
          [locals EXCEPT !.cod_pachet_db = ensured.cod,
                         !.miscari_doc_id = _get_next_miscari_id(w),
                         !.nr_doc = getNextNrDoc(w, pachet.data),
                         !.next_id_u = next_id_u,
                         !.id_u_start = next_id_u,
                         !.index = 1],
          ensured.ins)

\* An attempt that inserts the BP row first and no BC row
AllocatedProductionFirst(w, sch, pachet, locals, ensured) ==
  LET miscari_has_id_u == _miscari_has_id_u_column(sch)
      next_id_u == IF miscari_has_id_u THEN Some(_get_next_miscari_id_u(w)) ELSE None
  IN Went("bp",
          [locals EXCEPT !.cod_pachet_db = ensured.cod,
                         !.miscari_doc_id = _get_next_miscari_id(w),
                         !.nr_doc = getNextNrDoc(w, pachet.data),
                         !.miscari_has_pret = _miscari_has_pret_column(sch),
                         !.miscari_has_id_u = miscari_has_id_u,
                         !.next_id_u = next_id_u,
                         !.id_u_start = next_id_u,
                         !.index = 1],
          ensured.ins)

\* Lines 1042-1047 on the rows w the cursor sees after ensurePachetInArticole
Allocated(w, sch, pachet, locals, ensured) ==
  LET miscari_has_id_u == _miscari_has_id_u_column(sch)
      next_id_u == IF miscari_has_id_u THEN Some(_get_next_miscari_id_u(w)) ELSE None
  IN Went("bc",
          [locals EXCEPT !.cod_pachet_db = ensured.cod,
                         !.miscari_doc_id = _get_next_miscari_id(w),
                         !.nr_doc = getNextNrDoc(w, pachet.data),
                         !.miscari_has_pret = _miscari_has_pret_column(sch),
                         !.miscari_has_id_u = miscari_has_id_u,
                         !.next_id_u = next_id_u,
                         !.id_u_start = next_id_u,
                         !.index = 1],
          ensured.ins)

\* What follows ensurePachetInArticole at line 1024 and at line 1041
Articled(v, sch, pachet, locals, ensured) ==
  IF ensured.exc # None THEN Raised(ensured.exc[1], locals)
  ELSE IF locals.existing # None
    THEN Went("commit",
              [locals EXCEPT !.result = Some(SkippedResult(pachet, locals.existing[1],
                                                           ensured.cod))],
              ensured.ins)
  ELSE Allocated(WithInsert(v, ensured.ins), sch, pachet, locals, ensured)

\* An except block of ensurePachetInArticole that re-reads after any error
InsertRefusedAlways(v, sch, pachet, locals, e, retry_row) ==
  IF retry_row = None
    THEN Raised(e, [locals EXCEPT !.reread = TRUE])
  ELSE Articled(v, sch, pachet, [locals EXCEPT !.reread = TRUE, !.retry_row = retry_row],
                [exc |-> None, cod |-> PadCod(retry_row[1].COD), ins |-> None])

\* Lines 499-511: the INSERT of line 487 raised e, and retry_row is what the
\* SELECT of line 504 gives if it runs
InsertRefused(v, sch, pachet, locals, e, retry_row) ==
  IF ~_is_unique_violation(e) THEN Raised(e, locals)
  ELSE IF retry_row = None
    THEN Raised(e, [locals EXCEPT !.reread = TRUE])
  ELSE Articled(v, sch, pachet, [locals EXCEPT !.reread = TRUE, !.retry_row = retry_row],
                [exc |-> None, cod |-> PadCod(retry_row[1].COD), ins |-> None])

\* Line 1024 (the document exists, its COD_ART is empty) or lines 1041-1047
ArticleStep(v, sch, req, locals) ==
  Articled(v, sch, req.pachet, locals,
           ensurePachetInArticole(v, req.pachet,
                                  IF locals.existing # None THEN TRUE
                                  ELSE ~(_operation_sign(req.pachet) < 0)))

\* The optional ID_U column of a MISCARI row
WithIdU(row, id_u) == IF id_u = None THEN row ELSE ("ID_U" :> id_u[1]) @@ row

\* One turn of the loop of lines 1052-1082: the BC row of produse[index]
BcStep(v, sch, req, locals) ==
  LET pachet == req.pachet
      is_storno == _operation_sign(pachet) < 0
      produs == req.produse[locals.index]
      qty_consum == IF is_storno THEN Abs(produs.cantitate) ELSE -Abs(produs.cantitate)
      current_id_u == IF locals.miscari_has_id_u THEN locals.next_id_u ELSE None
  IN Went(IF locals.index = Len(req.produse) THEN "bp" ELSE "bc",
          [locals EXCEPT !.index = @ + 1,
                         !.next_id_u = IF locals.miscari_has_id_u
                                         THEN Some(locals.next_id_u[1] + 1) ELSE @],
          Some([t |-> "MISCARI",
                row |-> WithIdU([ID |-> locals.miscari_doc_id, DATA |-> pachet.data,
                                 NR_DOC |-> locals.nr_doc, TIP_DOC |-> <<"B", "C">>,
                                 COD_ART |-> produs.cod_articol_db,
                                 CANTITATE |-> qty_consum, GESTIUNE |-> pachet.gestiune],
                                current_id_u)]))

\* The optional PRET column of the BP row
WithPret(row, has_pret, pret) == IF has_pret THEN ("PRET" :> pret) @@ row ELSE row

\* Lines 1084-1143: the BP row, in the statement shape the columns allow
BpStep(v, sch, req, locals) ==
  LET pachet == req.pachet
      is_storno == _operation_sign(pachet) < 0
      qty_produs == Abs(pachet.cantitate_produsa)
      qty_bp == IF is_storno THEN -qty_produs ELSE qty_produs
      current_id_u == IF locals.miscari_has_id_u THEN locals.next_id_u ELSE None
  IN Went("bon_det",
          [locals EXCEPT !.line_no = 1,
                         !.next_id_u = IF locals.miscari_has_id_u
                                         THEN Some(locals.next_id_u[1] + 1) ELSE @],
          Some([t |-> "MISCARI",
                row |-> WithIdU(WithPret([ID |-> locals.miscari_doc_id, DATA |-> pachet.data,
                                          NR_DOC |-> locals.nr_doc, TIP_DOC |-> <<"B", "P">>,
                                          COD_ART |-> locals.cod_pachet_db,
                                          CANTITATE |-> qty_bp, GESTIUNE |-> pachet.gestiune],
                                         locals.miscari_has_pret, pachet.pret_vanz),
                                current_id_u)]))

\* The least of a set of names, in the order of sorted()
Least(names) == CHOOSE n \in names : \A o \in names : StrLE(Chars(n), Chars(o))

\* ", ".join(sorted(names))
RECURSIVE SortedJoin(_)
SortedJoin(names) ==
  IF names = {} THEN <<>>
  ELSE IF Cardinality(names) = 1 THEN Chars(Least(names))
  ELSE Chars(Least(names)) \o <<",", " ">> \o SortedJoin(names \ {Least(names)})

\* The value of a column in the loops of _insert_bon_det_rows (lines 921-922)
\* and _insert_pred_det_rows (lines 991-992)
Resolved(field, mapped, pachet) ==
  IF mapped = None /\ field.required
    THEN _default_value_for_field_type(field.field_type, pachet)
    ELSE mapped

\* Lines 629-642, row being what the SELECT gave
ArticolDetails(cod_articol_db, row) ==
  LET denumire == IF HasValue(row[1], "DENUMIRE") THEN _trim_db_char(row[1].DENUMIRE) ELSE <<>>
      um == IF HasValue(row[1], "UM") THEN _trim_db_char(row[1].UM) ELSE <<>>
  IN IF row = None
       THEN Raise(RuntimeError(
              <<"C", "a", "n", "n", "o", "t", " ", "i", "n", "s", "e", "r", "t", " ", "B", "O", "N", "_", "D", "E", "T", " ", "c", "o", "n", "s", "u", "m", "p", "t", "i", "o", "n", " ", "l", "i", "n", "e", " ", "b", "e", "c", "a", "u", "s", "e", " ", "p", "r", "o", "d", "u", "c", "t", " ", "w", "a", "s", " ", "n", "o", "t", " ", "f", "o", "u", "n", "d", " ", "i", "n", " ", "A", "R", "T", "I", "C", "O", "L", "E", " ", "(", "c", "o", "d", "_", "a", "r", "t", "i", "c", "o", "l", "=">>
              \o _trim_db_char(cod_articol_db) \o <<")", ".">>))
       ELSE Return([denumire |-> IF denumire = <<>> THEN _trim_db_char(cod_articol_db)
                                 ELSE denumire,
                    um |-> IF um = <<>> THEN <<"B", "U", "C">> ELSE um])

\* _get_articol_consum_details
_get_articol_consum_details(v, cod_articol_db) ==
  ArticolDetails(cod_articol_db, select_articol_details_by_cod(v, cod_articol_db))

\* A filter that keeps the identity columns too
IsInsertableOrIdentity(field) == field.identity \in BOOLEAN

\* Lines 872 and 964: the filter of insertable_fields
IsInsertable(field) == ~field.identity

\* Some column of the fields has this name in upper case
HasColumn(fields, upper) == \E i \in DOMAIN fields : Upper(Chars(fields[i].name)) = upper

\* The required columns that got no value
MissingRequired(fields, value) ==
  {fields[i].name : i \in {j \in DOMAIN fields : value[j] = None /\ fields[j].required}}

\* The row of the columns that got a value
RowOf(fields, value) ==
  [name \in {fields[i].name : i \in {j \in DOMAIN fields : value[j] # None}} |->
     value[CHOOSE i \in DOMAIN fields : fields[i].name = name][1]]

\* Lines 928-943: the checks of a BON_DET line and its INSERT
BonDetInsert(req, locals, next_id_u, id_u_start, fields, value) ==
  IF MissingRequired(fields, value) # {}
    THEN Raised(RuntimeError(<<"C", "a", "n", "n", "o", "t", " ", "i", "n", "s", "e", "r", "t", " ", "B", "O", "N", "_", "D", "E", "T", " ", "l", "i", "n", "e", " ">> \o IntStr(locals.line_no)
                             \o <<".", " ", "M", "i", "s", "s", "i", "n", "g", " ", "r", "e", "q", "u", "i", "r", "e", "d", " ", "m", "a", "p", "p", "e", "d", " ", "c", "o", "l", "u", "m", "n", "s", ":", " ">>
                             \o SortedJoin(MissingRequired(fields, value))), locals)
  ELSE IF \A i \in DOMAIN fields : value[i] = None
    THEN Raised(RuntimeError(<<"C", "a", "n", "n", "o", "t", " ", "i", "n", "s", "e", "r", "t", " ", "B", "O", "N", "_", "D", "E", "T", " ", "l", "i", "n", "e", " ">> \o IntStr(locals.line_no)
                             \o <<".", " ", "N", "o", " ", "c", "o", "m", "p", "a", "t", "i", "b", "l", "e", " ", "c", "o", "l", "u", "m", "n", "s", " ", "w", "e", "r", "e", " ", "m", "a", "p", "p", "e", "d", ".">>), locals)
  ELSE Went(IF locals.line_no = Len(req.produse) THEN "pred_det" ELSE "bon_det",
            [locals EXCEPT !.bon_next_id_u = IF next_id_u = None THEN None
                                             ELSE Some(next_id_u[1] + 1),
                           !.bon_id_u_start = id_u_start,
                           !.bon_inserted = locals.line_no,
                           !.line_no = locals.line_no + 1],
            Some([t |-> "BON_DET", row |-> RowOf(fields, value)]))

\* Lines 885-926: the quantities of line line_no and the values of its columns
BonDetLine(req, locals, next_id_u, id_u_start, fields, details) ==
  LET pachet == req.pachet
      is_storno == _operation_sign(pachet) < 0
      produs == req.produse[locals.line_no]
      qty_consum == IF is_storno THEN Abs(produs.cantitate) ELSE -Abs(produs.cantitate)
      qty_abs == Abs(produs.cantitate)
      line_value == IF qty_consum >= 0 THEN Abs(produs.val_produse)
                    ELSE -Abs(produs.val_produse)
      \* _quantize_money(abs(val_produse) / qty_abs)
      unit_price == IF qty_abs # 0
                      THEN MoneyQ * ((2 * Abs(produs.val_produse) * (One \div MoneyQ) + qty_abs)
                                     \div (2 * qty_abs))
                      ELSE 0
  IN IF ~details.ok THEN Raised(details.error, locals)
     ELSE BonDetInsert(req, locals, next_id_u, id_u_start, fields,
            [i \in DOMAIN fields |->
               Resolved(fields[i],
                        _bon_det_field_value(fields[i].name, pachet, produs,
                                             locals.miscari_doc_id, locals.nr_doc,
                                             locals.line_no, next_id_u, qty_consum,
                                             unit_price, line_value,
                                             details.value.denumire, details.value.um),
                        pachet)])

\* Lines 878 and 893-896: id_u_start, and the details of the article of the line
BonDetNumbered(v, req, locals, fields, next_id_u) ==
  BonDetLine(req, locals, next_id_u,
             IF locals.line_no > 1 THEN locals.bon_id_u_start ELSE next_id_u,
             fields,
             _get_articol_consum_details(v, req.produse[locals.line_no].cod_articol_db))

\* Lines 867-877: next_id_u is read once, before the loop
BonDetFields(v, req, locals, fields, insertable_fields) ==
  IF fields = <<>>
    THEN Raised(RuntimeError(
           <<"C", "a", "n", "n", "o", "t", " ", "i", "n", "s", "e", "r", "t", " ", "B", "O", "N", "_", "D", "E", "T", " ", "r", "o", "w", "s", ":", " ", "t", "a", "b", "l", "e", " ", "B", "O", "N", "_", "D", "E", "T", " ", "h", "a", "s", " ", "n", "o", " ", "r", "e", "a", "d", "a", "b", "l", "e", " ", "c", "o", "l", "u", "m", "n", "s", " ", "i", "n", " ", "c", "u", "r", "r", "e", "n", "t", " ", "s", "c", "h", "e", "m", "a", ".">>),
           locals)
  ELSE IF insertable_fields = <<>>
    THEN Raised(RuntimeError(
           <<"C", "a", "n", "n", "o", "t", " ", "i", "n", "s", "e", "r", "t", " ", "B", "O", "N", "_", "D", "E", "T", " ", "r", "o", "w", "s", ":", " ", "n", "o", " ", "w", "r", "i", "t", "a", "b", "l", "e", " ", "B", "O", "N", "_", "D", "E", "T", " ", "c", "o", "l", "u", "m", "n", "s", " ", "w", "e", "r", "e", " ", "f", "o", "u", "n", "d", ".">>), locals)
  ELSE BonDetNumbered(v, req, locals, insertable_fields,
                      IF locals.line_no > 1 THEN locals.bon_next_id_u
                      ELSE IF HasColumn(insertable_fields, <<"I", "D", "_", "U">>)
                        THEN Some(_get_next_bon_det_id_u(v))
                      ELSE None)

\* _insert_bon_det_rows: the head of the function at the first line, then one
\* turn of its loop
BonDetStep(v, sch, req, locals) ==
  BonDetFields(v, req, locals, _get_relation_fields(sch, "BON_DET"),
               SelectSeq(_get_relation_fields(sch, "BON_DET"), IsInsertable))

\* Lines 1158-1174: the result of an attempt that wrote the document
WrittenResult(pachet, locals, pred_det_inserted) ==
  [success |-> TRUE,
   message |-> <<"p", "r", "o", "d", "u", "c", "e", "P", "a", "c", "h", "e", "t", " ", "e", "x", "e", "c", "u", "t", "e", "d", " ", "s", "u", "c", "c", "e", "s", "s", "f", "u", "l", "l", "y", ".">>,
   codPachet |-> _trim_db_char(locals.cod_pachet_db),
   nrDoc |-> locals.nr_doc,
   idDoc |-> pachet.id_doc,
   miscariId |-> locals.miscari_doc_id,
   bonDetInserted |-> locals.bon_inserted,
   predDetInserted |-> pred_det_inserted,
   alreadyImported |-> FALSE,
   idUStart |-> locals.id_u_start,
   idUEnd |-> IF locals.next_id_u = None THEN None ELSE Some(locals.next_id_u[1] - 1),
   bonDetIdUStart |-> locals.bon_id_u_start,
   bonDetIdUEnd |-> IF locals.bon_next_id_u = None THEN None
                    ELSE Some(locals.bon_next_id_u[1] - 1)]

\* Lines 1001-1013: the checks of the PRED_DET row and its INSERT
PredDetInsert(pachet, locals, fields, value) ==
  IF MissingRequired(fields, value) # {}
    THEN Raised(RuntimeError(<<"C", "a", "n", "n", "o", "t", " ", "i", "n", "s", "e", "r", "t", " ", "i", "n", "t", "o", " ", "P", "R", "E", "D", "_", "D", "E", "T", ".", " ", "M", "i", "s", "s", "i", "n", "g", " ", "r", "e", "q", "u", "i", "r", "e", "d", " ", "m", "a", "p", "p", "e", "d", " ", "c", "o", "l", "u", "m", "n", "s", ":", " ">>
                             \o SortedJoin(MissingRequired(fields, value))), locals)
  ELSE IF \A i \in DOMAIN fields : value[i] = None
    THEN Raised(RuntimeError(
           <<"C", "a", "n", "n", "o", "t", " ", "i", "n", "s", "e", "r", "t", " ", "i", "n", "t", "o", " ", "P", "R", "E", "D", "_", "D", "E", "T", ".", " ", "N", "o", " ", "c", "o", "m", "p", "a", "t", "i", "b", "l", "e", " ", "c", "o", "l", "u", "m", "n", "s", " ", "w", "e", "r", "e", " ", "m", "a", "p", "p", "e", "d", ".">>), locals)
  ELSE Went("commit", [locals EXCEPT !.result = Some(WrittenResult(pachet, locals, 1))],
            Some([t |-> "PRED_DET", row |-> RowOf(fields, value)]))

\* Lines 978-999: the values of the columns of the PRED_DET row
PredDetRow(req, locals, fields, pred_det_nr) ==
  PredDetInsert(req.pachet, locals, fields,
    [i \in DOMAIN fields |->
       Resolved(fields[i],
                _pred_det_field_value(fields[i].name, req.pachet, req.produse[1],
                                      locals.cod_pachet_db, locals.miscari_doc_id,
                                      locals.nr_doc, pred_det_nr, 1),
                req.pachet)])

\* Lines 961-974
PredDetFields(v, req, locals, fields, insertable_fields) ==
  IF fields = <<>> \/ insertable_fields = <<>>
    THEN Went("commit", [locals EXCEPT !.result = Some(WrittenResult(req.pachet, locals, 0))],
              None)
  ELSE PredDetRow(req, locals, insertable_fields,
                  IF HasColumn(insertable_fields, <<"N", "R">>) THEN Some(_get_next_pred_det_nr(v))
                  ELSE None)

\* _insert_pred_det_rows, then the return of _execute_produce_pachet_once
PredDetStep(v, sch, req, locals) ==
  PredDetFields(v, req, locals, _get_relation_fields(sch, "PRED_DET"),
                SelectSeq(_get_relation_fields(sch, "PRED_DET"), IsInsertable))

\* The statement labels of the try block of producePachet, in program order
Labels == {"find", "article", "bc", "bp", "bon_det", "pred_det"}

\* The step at a label
Step(label, v, sch, req, locals) ==
  CASE label = "find" -> FindStep(v, sch, req, locals, <<FALSE, FALSE>>)
    [] label = "article" -> ArticleStep(v, sch, req, locals)
    [] label = "bc" -> BcStep(v, sch, req, locals)
    [] label = "bp" -> BpStep(v, sch, req, locals)
    [] label = "bon_det" -> BonDetStep(v, sch, req, locals)
    [] label = "pred_det" -> PredDetStep(v, sch, req, locals)

\* ---------------------------------------------------------------- state
VARIABLES
  db,          \* the committed rows of the four tables
  schema,      \* the catalog: the columns of MISCARI, BON_DET and PRED_DET, the unique keys
  pc,          \* where each thread is in producePachet
  payload,     \* the payload of the call in progress
  request,     \* validate_produce_pachet_input(payload)
  attempt,     \* the loop variable of "for attempt in range(2)"
  connection,  \* the connection of the attempt: "none", "open" or "closed"
  tx,          \* the transaction of the open connection: its snapshot and its own rows
  loc,         \* the locals of _execute_produce_pachet_once
  exc,         \* the exception in flight
  outcome,     \* how the last call of the thread ended
  calls,       \* the number of calls made so far
  applied,     \* the payloads whose document a call has written and committed
  hist,        \* per thread, a record of the call in progress kept for the properties
  items,           \* the list of _run_pachet_import_sync
  index,           \* its loop variable: the place in the list of the item in hand
  success_count,   \* its count of the calls that returned
  error_messages,  \* its list of the calls that raised
  attempted,       \* the payloads producePachet was called with, in the order of the calls
  sync_result,     \* how _run_pachet_import_sync ended
  _thread,      \* SchedulerEngine._thread
  _stop_event,  \* SchedulerEngine._stop_event: set or clear
  _config,      \* SchedulerEngine._config
  loop,         \* the threads started on _run_loop: where each is, and its locals
  ui            \* the thread of the window: where it is in start or stop

batch == <<items, index, success_count, error_messages, attempted, sync_result>>

engine == <<_thread, _stop_event, _config, loop, ui>>

vars == <<db, schema, pc, payload, request, attempt, connection, tx, loc, exc, outcome,
          calls, applied, hist, batch, engine>>

\* ------------------------------------------------------------- snapshots
\* A transaction sees the rows committed when it started and its own rows.
NewTx == [snap |-> [t \in Tables |-> Len(db[t])], w |-> EmptyTables]

View(t) == [n \in Tables |-> SubSeq(db[n], 1, t.snap[n]) \o t.w[n]]

KeyColumns(table_name) == {k[2] : k \in {u \in schema.unique : u[1] = table_name}}

SameKey(a, b, column) == HasValue(a, column) /\ HasValue(b, column) /\ a[column] = b[column]

\* The INSERT breaks a unique key: an equal key is committed, or is the
\* transaction's own.
Violates(t, ins) ==
  \E column \in KeyColumns(ins.t) :
    \E r \in Rows(db[ins.t]) \cup Rows(t.w[ins.t]) : SameKey(r, ins.row, column)

\* The INSERT waits: an equal key is held by a transaction still open.
Waits(p, ins) ==
  \E q \in Threads \ {p} :
    /\ tx[q] # None
    /\ \E column \in KeyColumns(ins.t) :
         \E r \in Rows(tx[q][1].w[ins.t]) : SameKey(r, ins.row, column)

\* --------------------------------------------------------- producePachet
\* What the properties need of a call: the tables it found, its connections
\* opened and closed, its rollbacks and commits, the exceptions of its
\* attempts, whether validation passed, whether a call of the same payload had
\* written its document before, whether a call of another thread ran meanwhile
NoHist == [before |-> EmptyTables, opened |-> 0, closed |-> 0, rollbacks |-> 0,
           commits |-> 0, excs |-> <<>>, validated |-> FALSE, repeat |-> FALSE,
           together |-> FALSE]

Idle(p) == pc[p] = "idle"

\* producePachet(payload, db_settings) is called
Call(p, pl) ==
  /\ Idle(p)
  /\ calls < MaxCalls
  /\ calls' = calls + 1
  /\ pc' = [pc EXCEPT ![p] = "validate"]
  /\ payload' = [payload EXCEPT ![p] = Some(pl)]
  /\ request' = [request EXCEPT ![p] = None]
  /\ attempt' = [attempt EXCEPT ![p] = 0]
  /\ connection' = [connection EXCEPT ![p] = "none"]
  /\ loc' = [loc EXCEPT ![p] = NoLocals]
  /\ exc' = [exc EXCEPT ![p] = None]
  /\ outcome' = [outcome EXCEPT ![p] = None]
  /\ hist' = [q \in Threads |->
               IF q = p THEN [NoHist EXCEPT !.before = db, !.repeat = pl \in applied,
                                            !.together = \E o \in Threads \ {p} : ~Idle(o)]
               ELSE [hist[q] EXCEPT !.together = @ \/ ~Idle(q)]]
  /\ UNCHANGED <<batch, engine, db, schema, tx, applied>>

\* A producePachet that connects before it validates
ValidateConnected(p) ==
  /\ pc[p] = "validate"
  /\ connection' = [connection EXCEPT ![p] = "open"]
  /\ LET r == validate_produce_pachet_input(payload[p][1])
     IN IF r.ok
          THEN /\ request' = [request EXCEPT ![p] = Some(r.value)]
               /\ pc' = [pc EXCEPT ![p] = "find"]
               /\ hist' = [hist EXCEPT ![p].validated = TRUE, ![p].opened = @ + 1]
               /\ UNCHANGED outcome
          ELSE /\ outcome' = [outcome EXCEPT ![p] = Some([kind |-> "raised", error |-> r.error])]
               /\ pc' = [pc EXCEPT ![p] = "idle"]
               /\ hist' = [hist EXCEPT ![p].opened = @ + 1]
               /\ UNCHANGED request
  /\ UNCHANGED <<batch, engine, db, schema, payload, attempt, tx, loc, exc, calls, applied>>

\* Line 1189: request = validate_produce_pachet_input(payload)
Validate(p) ==
  /\ pc[p] = "validate"
  /\ LET r == validate_produce_pachet_input(payload[p][1])
     IN IF r.ok
          THEN /\ request' = [request EXCEPT ![p] = Some(r.value)]
               /\ pc' = [pc EXCEPT ![p] = "connect"]
               /\ hist' = [hist EXCEPT ![p].validated = TRUE]
               /\ UNCHANGED outcome
          ELSE /\ outcome' = [outcome EXCEPT ![p] = Some([kind |-> "raised", error |-> r.error])]
               /\ pc' = [pc EXCEPT ![p] = "idle"]
               /\ UNCHANGED <<request, hist>>
  /\ UNCHANGED <<batch, engine, db, schema, payload, attempt, connection, tx, loc, exc, calls, applied>>

\* Lines 1194-1199: connection = fb_connect(...)
Connect(p) ==
  /\ pc[p] = "connect"
  /\ connection' = [connection EXCEPT ![p] = "open"]
  /\ hist' = [hist EXCEPT ![p].opened = @ + 1]
  /\ loc' = [loc EXCEPT ![p] = NoLocals]
  /\ exc' = [exc EXCEPT ![p] = None]
  /\ pc' = [pc EXCEPT ![p] = "find"]
  /\ UNCHANGED <<batch, engine, db, schema, payload, request, attempt, tx, outcome, calls, applied>>

\* fb_connect raises: the call is outside the try block
ConnectFails(p) ==
  /\ pc[p] = "connect"
  /\ outcome' = [outcome EXCEPT ![p] = Some([kind |-> "raised", error |-> ConnectionLost])]
  /\ pc' = [pc EXCEPT ![p] = "idle"]
  /\ UNCHANGED <<batch, engine, db, schema, payload, request, attempt, connection, tx, loc, exc, calls, applied, hist>>

\* The transaction of the attempt: the first statement starts it
Tx(p) == IF tx[p] = None THEN NewTx ELSE tx[p][1]

\* The step done is over: its INSERT, if it has one, joins the rows of the
\* transaction t
Ended(p, t, done) ==
  /\ pc' = [pc EXCEPT ![p] = done.pc]
  /\ loc' = [loc EXCEPT ![p] = done.loc]
  /\ exc' = [exc EXCEPT ![p] = done.exc]
  /\ tx' = [tx EXCEPT ![p] = Some(IF done.ins = None THEN t
                                  ELSE [t EXCEPT !.w[done.ins[1].t] = Append(@, done.ins[1].row)])]
  /\ UNCHANGED <<batch, engine, db, schema, payload, request, attempt, connection, outcome, calls, applied, hist>>

\* The server takes the INSERT of the step, refuses it for a unique key, or
\* makes it wait for the transaction that holds the key
Stepped(p, t, done) ==
  IF done.ins = None THEN Ended(p, t, done)
  ELSE IF Violates(t, done.ins[1])
    THEN Ended(p, t, Raised(UniqueKeyError(done.ins[1].t), loc[p]))
  ELSE ~Waits(p, done.ins[1]) /\ Ended(p, t, done)

\* The server refuses the INSERT of the step for a unique key
Refused(p, t, done) ==
  done.ins # None /\ Ended(p, t, Raised(UniqueKeyError(done.ins[1].t), loc[p]))

\* A statement of the try block, connection.commit() included, raises e
Fault(p, e) ==
  /\ pc[p] \in Labels \cup {"commit"}
  /\ exc' = [exc EXCEPT ![p] = Some(e)]
  /\ pc' = [pc EXCEPT ![p] = "except"]
  /\ UNCHANGED <<batch, engine, db, schema, payload, request, attempt, connection, tx, loc, outcome, calls, applied, hist>>

OwnRows(p) == IF tx[p] = None THEN EmptyTables ELSE tx[p][1].w

\* A try block that returns the result without committing
CommitSkipped(p) ==
  /\ pc[p] = "commit"
  /\ tx' = [tx EXCEPT ![p] = None]
  /\ pc' = [pc EXCEPT ![p] = "finally_return"]
  /\ UNCHANGED <<batch, engine, db, schema, payload, request, attempt, connection, loc, exc, outcome, calls, applied, hist>>

\* A commit that replaces the tables by the rows of the transaction
CommitReplacing(p) ==
  /\ pc[p] = "commit"
  /\ db' = [t \in Tables |-> IF OwnRows(p)[t] = <<>> THEN db[t] ELSE OwnRows(p)[t]]
  /\ tx' = [tx EXCEPT ![p] = None]
  /\ pc' = [pc EXCEPT ![p] = "finally_return"]
  /\ hist' = [hist EXCEPT ![p].commits = @ + 1]
  /\ applied' = IF loc[p].result[1].alreadyImported THEN applied
                ELSE applied \cup {payload[p][1]}
  /\ UNCHANGED <<batch, engine, schema, payload, request, attempt, connection, loc, exc, outcome, calls>>

\* Line 1203: connection.commit(); line 1204 returns through "finally"
Commit(p) ==
  /\ pc[p] = "commit"
  /\ db' = [t \in Tables |-> db[t] \o OwnRows(p)[t]]
  /\ tx' = [tx EXCEPT ![p] = None]
  /\ pc' = [pc EXCEPT ![p] = "finally_return"]
  /\ hist' = [hist EXCEPT ![p].commits = @ + 1]
  /\ applied' = IF loc[p].result[1].alreadyImported THEN applied
                ELSE applied \cup {payload[p][1]}
  /\ UNCHANGED <<batch, engine, schema, payload, request, attempt, connection, loc, exc, outcome, calls>>

\* An except block that commits where it should roll back
ExceptCommitting(p) ==
  /\ pc[p] = "except"
  /\ db' = [t \in Tables |-> db[t] \o OwnRows(p)[t]]
  /\ tx' = [tx EXCEPT ![p] = None]
  /\ hist' = [hist EXCEPT ![p].rollbacks = @ + 1, ![p].excs = Append(@, exc[p][1])]
  /\ pc' = [pc EXCEPT ![p] = IF _is_unique_violation(exc[p][1]) /\ attempt[p] = 0
                              THEN "finally_continue" ELSE "finally_raise"]
  /\ UNCHANGED <<batch, engine, schema, payload, request, attempt, connection, loc, exc, outcome, calls, applied>>

\* An except block that retries whatever the attempt
ExceptRetrying(p) ==
  /\ pc[p] = "except"
  /\ tx' = [tx EXCEPT ![p] = None]
  /\ hist' = [hist EXCEPT ![p].rollbacks = @ + 1, ![p].excs = Append(@, exc[p][1])]
  /\ pc' = [pc EXCEPT ![p] = IF _is_unique_violation(exc[p][1])
                              THEN "finally_continue" ELSE "finally_raise"]
  /\ UNCHANGED <<batch, engine, db, schema, payload, request, attempt, connection, loc, exc, outcome, calls, applied>>

\* An except block that retries or raises without rolling back
ExceptKeeping(p) ==
  /\ pc[p] = "except"
  /\ hist' = [hist EXCEPT ![p].excs = Append(@, exc[p][1])]
  /\ pc' = [pc EXCEPT ![p] = IF _is_unique_violation(exc[p][1]) /\ attempt[p] = 0
                              THEN "finally_continue" ELSE "finally_raise"]
  /\ UNCHANGED <<batch, engine, db, schema, payload, request, attempt, connection, tx, loc, exc, outcome, calls, applied>>

\* Lines 1205-1211: connection.rollback(), then continue or raise
Except(p) ==
  /\ pc[p] = "except"
  /\ tx' = [tx EXCEPT ![p] = None]
  /\ hist' = [hist EXCEPT ![p].rollbacks = @ + 1, ![p].excs = Append(@, exc[p][1])]
  /\ pc' = [pc EXCEPT ![p] = IF _is_unique_violation(exc[p][1]) /\ attempt[p] = 0
                              THEN "finally_continue" ELSE "finally_raise"]
  /\ UNCHANGED <<batch, engine, db, schema, payload, request, attempt, connection, loc, exc, outcome, calls, applied>>

\* A producePachet that closes the connection on return and on raise, and
\* leaves it open when it retries
FinallyLeaking(p) ==
  /\ pc[p] \in {"finally_return", "finally_continue", "finally_raise"}
  /\ connection' = [connection EXCEPT ![p] = IF pc[p] = "finally_continue" THEN @ ELSE "closed"]
  /\ hist' = [hist EXCEPT ![p].closed = IF pc[p] = "finally_continue" THEN @ ELSE @ + 1]
  /\ CASE pc[p] = "finally_return" ->
            /\ outcome' = [outcome EXCEPT ![p] = Some([kind |-> "returned", result |-> loc[p].result[1]])]
            /\ pc' = [pc EXCEPT ![p] = "idle"]
            /\ UNCHANGED attempt
       [] pc[p] = "finally_continue" ->
            /\ attempt' = [attempt EXCEPT ![p] = @ + 1]
            /\ pc' = [pc EXCEPT ![p] = "connect"]
            /\ UNCHANGED outcome
       [] pc[p] = "finally_raise" ->
            /\ outcome' = [outcome EXCEPT ![p] = Some([kind |-> "raised", error |-> exc[p][1]])]
            /\ pc' = [pc EXCEPT ![p] = "idle"]
            /\ UNCHANGED attempt
  /\ UNCHANGED <<batch, engine, db, schema, payload, request, tx, loc, exc, calls, applied>>

\* Lines 1212-1213: connection.close(), then what the try block decided
Finally(p) ==
  /\ pc[p] \in {"finally_return", "finally_continue", "finally_raise"}
  /\ connection' = [connection EXCEPT ![p] = "closed"]
  /\ hist' = [hist EXCEPT ![p].closed = @ + 1]
  /\ CASE pc[p] = "finally_return" ->
            /\ outcome' = [outcome EXCEPT ![p] = Some([kind |-> "returned", result |-> loc[p].result[1]])]
            /\ pc' = [pc EXCEPT ![p] = "idle"]
            /\ UNCHANGED attempt
       [] pc[p] = "finally_continue" ->
            /\ attempt' = [attempt EXCEPT ![p] = @ + 1]
            /\ pc' = [pc EXCEPT ![p] = "connect"]
            /\ UNCHANGED outcome
       [] pc[p] = "finally_raise" ->
            /\ outcome' = [outcome EXCEPT ![p] = Some([kind |-> "raised", error |-> exc[p][1]])]
            /\ pc' = [pc EXCEPT ![p] = "idle"]
            /\ UNCHANGED attempt
  /\ UNCHANGED <<batch, engine, db, schema, payload, request, tx, loc, exc, calls, applied>>

\* ------------------------------------------------- nothing else is running
\* No _run_pachet_import_sync is in progress
NoBatch ==
  /\ items = <<>>
  /\ index = 1
  /\ success_count = 0
  /\ error_messages = <<>>
  /\ attempted = <<>>
  /\ sync_result = None

\* AppConfig() (lines 84, 88): both jobs enabled
AppConfig == [enable_sync_job |-> TRUE, enable_export_job |-> TRUE]

Loops == 1..MaxLoops

\* A thread that was not started yet
NotStarted == [pc |-> "unstarted", config |-> AppConfig, sync_due |-> FALSE, export_due |-> FALSE]

\* SchedulerEngine.__init__ (lines 713-719), the window doing nothing
NoEngine ==
  /\ _thread = None
  /\ _stop_event = FALSE
  /\ _config = AppConfig
  /\ loop = [l \in Loops |-> NotStarted]
  /\ ui = [pc |-> "idle", thread |-> None, config |-> AppConfig]


\* ------------------------------------------------------------ deployments
\* A row of RDB$RELATION_FIELDS joined with RDB$FIELDS
CatalogField(name, null_flag, field_type) ==
  [FIELD_NAME |-> name, NULL_FLAG |-> null_flag, DEFAULT_SOURCE |-> None,
   IDENTITY_TYPE |-> -1, FIELD_TYPE |-> field_type]

MiscariColumns == {"ID", "DATA", "NR_DOC", "TIP_DOC", "COD_ART", "CANTITATE", "GESTIUNE"}

\* The current shape: ID_U and PRET in MISCARI, PRED_DET keyed by ID_DOC
SchemaCurrent ==
  [MISCARI |-> MiscariColumns \cup {"ID_U", "PRET"},
   BON_DET |-> <<CatalogField("ID_U", 1, 8), CatalogField("ID", 1, 8),
                 CatalogField("ID_DOC", 0, 8), CatalogField("DATA", 1, 12),
                 CatalogField("NR_DOC", 1, 8), CatalogField("COD_ART", 1, 14),
                 CatalogField("CANTITATE", 0, 16)>>,
   PRED_DET |-> <<CatalogField("NR", 1, 8), CatalogField("ID_DOC", 0, 8),
                  CatalogField("ID_UNIC", 1, 8), CatalogField("DATA", 1, 12),
                  CatalogField("NR_DOC", 1, 8), CatalogField("COD_ART", 1, 14),
                  CatalogField("CANTITATE", 0, 16)>>,
   unique |-> {<<"ARTICOLE", "COD">>, <<"MISCARI", "ID_U">>, <<"BON_DET", "ID_U">>,
               <<"PRED_DET", "NR">>}]

\* An older shape: MISCARI without ID_U and PRET, PRED_DET without ID_DOC
SchemaLegacy ==
  [MISCARI |-> MiscariColumns,
   BON_DET |-> <<CatalogField("ID", 1, 8), CatalogField("DATA", 1, 12),
                 CatalogField("NR_DOC", 1, 8), CatalogField("COD_ART", 1, 14),
                 CatalogField("CANTITATE", 0, 16)>>,
   PRED_DET |-> <<CatalogField("ID_UNIC", 1, 8), CatalogField("DATA", 1, 12),
                  CatalogField("NR_DOC", 1, 8), CatalogField("CANTITATE", 0, 16)>>,
   unique |-> {<<"ARTICOLE", "COD">>}]

\* The current shape with no readable PRED_DET column
SchemaNoPredDet == [SchemaCurrent EXCEPT !.PRED_DET = <<>>]

\* The current shape with one more column of BON_DET, required and of a type
\* (BLOB) for which lines 670-681 have no default value
SchemaUnmapped(name) ==
  [SchemaCurrent EXCEPT !.BON_DET = Append(@, CatalogField(name, 1, 261))]

Cod(n) == LJust(ZFill(Digits(n), 8), 16)

\* Two names of packages
PachetA == <<"P", "A", "C", "H", "E", "T", " ", "A">>

DuplicateSet == <<"D", "U", "P", "L", "I", "C", "A", "T", "E", " ", "S", "E", "T">>

\* The payload of a production (sign = 1) or a reversal (sign = -1) of n materials
MakePayload(id_doc, day, denumire, sign, n) ==
  [pachet |-> [id_doc |-> id_doc,
               data |-> <<"2", "0", "2", "4", "-", "0", "1", "-", "0">> \o Digits(day),
               denumire |-> denumire,
               pret_vanz |-> 2 * One,
               cota_tva |-> 21 * One,
               cost_total |-> sign * n * One,
               gestiune |-> <<"G", "1">>,
               cantitate_produsa |-> sign * One,
               status |-> <<"p", "e", "n", "d", "i", "n", "g">>],
   produse |-> [i \in 1..n |-> [cod_articol |-> Digits(i),
                                cantitate |-> sign * One,
                                val_produse |-> sign * One]]]

Production(id_doc, day) == MakePayload(id_doc, day, PachetA, 1, IF id_doc = 1 THEN 1 ELSE MaxMat)

ValidPayloads ==
  {Production(i, d) : i \in 1..MaxIdDoc, d \in Dates}
  \cup {MakePayload(1, 1, PachetA, -1, 1), MakePayload(1, 1, DuplicateSet, -1, 1)}

InvalidPayloads ==
  {MakePayload(0, 1, PachetA, 1, 1),
   [MakePayload(1, 1, PachetA, 1, 1) EXCEPT !.pachet.cost_total = 3 * One]}

Payloads == ValidPayloads \cup InvalidPayloads

\* ARTICOLE with the raw materials and no package
SeedArticole ==
  [i \in 1..(MaxMat + 1) |->
     [COD |-> Cod(i), DENUMIRE |-> <<"M", "A", "T", " ">> \o Digits(i), UM |-> <<"K", "G">>,
      TVA |-> 21 * One, DEN_TIP |-> <<"M", "a", "t", "e", "r", "i", "i", " ", "p", "r", "i", "m", "e">>, TIP |-> <<"0", "1">>]]

SeedEmpty == [EmptyTables EXCEPT !.ARTICOLE = SeedArticole]

\* The tables after producePachet ran alone on the request, from the step at
\* the label on
RECURSIVE RunFrom(_, _, _, _, _, _)
RECURSIVE Continued(_, _, _, _, _)
Continued(tables, sch, req, w, done) ==
  IF done.exc # None THEN tables
  ELSE IF done.pc = "commit" THEN WithInsert([t \in Tables |-> tables[t] \o w[t]], done.ins)
  ELSE RunFrom(done.pc, tables, sch, req, WithInsert(w, done.ins), done.loc)

RunFrom(label, tables, sch, req, w, locals) ==
  Continued(tables, sch, req, w,
            Step(label, [t \in Tables |-> tables[t] \o w[t]], sch, req, locals))

\* The tables after producePachet ran on each payload in turn
RECURSIVE Ran(_, _, _)
Ran(tables, sch, pls) ==
  IF pls = <<>> THEN tables
  ELSE Ran(RunFrom("find", tables, sch, validate_produce_pachet_input(Head(pls)).value,
                   EmptyTables, NoLocals),
           sch, Tail(pls))

\* Day 1 holds the documents of id_doc 1 and then of id_doc 2
SeedHistory(sch) ==
  Ran(SeedEmpty, sch, <<MakePayload(1, 1, PachetA, 1, 1), MakePayload(2, 1, PachetA, 1, 1)>>)

\* A partial import left by hand or by an older program: one BC row under the
\* legacy key (MISCARI.ID is the id_doc), no BP row, no detail row
SeedPartial(sch) ==
  [SeedEmpty EXCEPT !.MISCARI =
     <<WithIdU([ID |-> 1, DATA |-> 1, NR_DOC |-> 1, TIP_DOC |-> <<"B", "C">>,
                COD_ART |-> Cod(1), CANTITATE |-> -One, GESTIUNE |-> <<"G", "1">>],
               IF "ID_U" \in sch.MISCARI THEN Some(1) ELSE None)>>]

\* The document of id_doc 1 on day 1, whose BP row was removed afterwards: its
\* BC rows, its BON_DET rows and its PRED_DET row remain
SeedLostProduction(sch) ==
  LET tables == Ran(SeedEmpty, sch, <<MakePayload(1, 1, PachetA, 1, 1)>>)
  IN [tables EXCEPT !.MISCARI = SelectSeq(@, LAMBDA r : r.TIP_DOC # <<"B", "P">>)]

\* The document of id_doc 1 on day 1, whose BC rows were removed afterwards: its
\* BP row, its BON_DET rows and its PRED_DET row remain
SeedLostConsumption(sch) ==
  LET tables == Ran(SeedEmpty, sch, <<MakePayload(1, 1, PachetA, 1, 1)>>)
  IN [tables EXCEPT !.MISCARI = SelectSeq(@, LAMBDA r : r.TIP_DOC # <<"B", "C">>)]

\* The document of id_doc 1 on day 1 as an older program left it: its BP row
\* has no COD_ART (the case line 1023 names)
SeedNoCode(sch) ==
  LET tables == Ran(SeedEmpty, sch, <<MakePayload(1, 1, PachetA, 1, 1)>>)
      WithoutCode(r) == IF r.TIP_DOC = <<"B", "P">>
                          THEN [c \in DOMAIN r \ {"COD_ART"} |-> r[c]] ELSE r
  IN [tables EXCEPT !.MISCARI = [i \in DOMAIN @ |-> WithoutCode(@[i])]]

\* The deployments: a catalog and the tables a call finds
Deployments ==
  {<<SchemaCurrent, SeedEmpty>>, <<SchemaCurrent, SeedHistory(SchemaCurrent)>>,
   <<SchemaCurrent, SeedPartial(SchemaCurrent)>>,
   <<SchemaCurrent, SeedLostProduction(SchemaCurrent)>>,
   <<SchemaCurrent, SeedLostConsumption(SchemaCurrent)>>,
   <<SchemaCurrent, SeedNoCode(SchemaCurrent)>>, <<SchemaLegacy, SeedEmpty>>,
   <<SchemaNoPredDet, SeedEmpty>>, <<SchemaUnmapped("POZA"), SeedEmpty>>,
   <<SchemaUnmapped("DUPLICATE"), SeedEmpty>>}

InitThreads ==
  /\ pc = [p \in Threads |-> "idle"]
  /\ payload = [p \in Threads |-> None]
  /\ request = [p \in Threads |-> None]
  /\ attempt = [p \in Threads |-> 0]
  /\ connection = [p \in Threads |-> "none"]
  /\ tx = [p \in Threads |-> None]
  /\ loc = [p \in Threads |-> NoLocals]
  /\ exc = [p \in Threads |-> None]
  /\ outcome = [p \in Threads |-> None]
  /\ calls = 0
  /\ applied = {}
  /\ hist = [p \in Threads |-> NoHist]

\* ------------------------------- one caller, its calls one after the other
Init ==
  /\ \E d \in Deployments : schema = d[1] /\ db = d[2]
  /\ InitThreads
  /\ NoBatch
  /\ NoEngine

CallAlone(p) == p = "manual" /\ \E pl \in Payloads : Call(p, pl)

\* One statement of _execute_produce_pachet_once (line 1202)
Run(p) ==
  /\ pc[p] \in Labels
  /\ Stepped(p, Tx(p), Step(pc[p], View(Tx(p)), schema, request[p][1], loc[p]))

\* The server fails one or both lookups of _find_existing_document
LookupFails(p) ==
  /\ pc[p] = "find"
  /\ \E fails \in {<<TRUE, FALSE>>, <<TRUE, TRUE>>, <<FALSE, TRUE>>} :
       Stepped(p, Tx(p), FindStep(View(Tx(p)), schema, request[p][1], loc[p], fails))

\* A writer outside the program took the key of the INSERT of the step
KeyTaken(p) ==
  /\ pc[p] \in Labels
  /\ Refused(p, Tx(p), Step(pc[p], View(Tx(p)), schema, request[p][1], loc[p]))

\* The connection drops during a statement of the try block
ConnectionDrops(p) == Fault(p, ConnectionLost)

Next ==
  \E p \in Threads :
    \/ CallAlone(p)
    \/ Validate(p)
    \/ Connect(p)
    \/ ConnectFails(p)
    \/ Run(p)
    \/ LookupFails(p)
    \/ KeyTaken(p)
    \/ ConnectionDrops(p)
    \/ Commit(p)
    \/ Except(p)
    \/ Finally(p)

Spec == Init /\ [][Next]_vars

\* ---------------------------- the scheduler thread and a manual job thread
ConcurrentPayloads == {MakePayload(i, d, PachetA, 1, 1) : i \in 1..MaxIdDoc, d \in Dates}

InitConcurrent ==
  /\ \E d \in {<<SchemaCurrent, SeedEmpty>>, <<SchemaCurrent, SeedHistory(SchemaCurrent)>>,
                <<SchemaLegacy, SeedEmpty>>, <<SchemaLegacy, SeedHistory(SchemaLegacy)>>} :
       schema = d[1] /\ db = d[2]
  /\ InitThreads
  /\ NoBatch
  /\ NoEngine

CallAny(p) == \E pl \in ConcurrentPayloads : Call(p, pl)

NextConcurrent ==
  \E p \in Threads :
    \/ CallAny(p)
    \/ Validate(p)
    \/ Connect(p)
    \/ Run(p)
    \/ Commit(p)
    \/ Except(p)
    \/ Finally(p)

SpecConcurrent == InitConcurrent /\ [][NextConcurrent]_vars

\* ------------------------------------------- the validator on its own
\* Payloads for validate_produce_pachet_input: every combination of a produced
\* quantity, a total cost and up to MaxMat materials with a quantity and a
\* value each, and payloads that differ only in the code of their material
ValidatorPayloads ==
  LET quantities == {-One, 0, One}
      values == {-One, 0, One, One + 4, One + 5}
      costs == {-2 * One, -One, 0, One, One + 10, 2 * One}
      blanks == <<" ", " ", " ", " ", " ", " ", " ", " ">>
      codes == {<<>>, <<" ">>, <<"7">>, <<" ", "4", "2", " ">>, <<"A", "1">>, <<"1", "2", "-">>,
                <<"1", "2", "3", "4", "5", "6", "7", "8">>,
                <<"1", "2", "3", "4", "5", "6", "7", "8", "9">>,
                <<"1", "2", "3", "4", "5", "6", "7", "8">> \o blanks,
                <<"1", "2", "3", "4", "5", "6", "7", "8", "A", "B", "/", " ", "x", "9", " ", "Z">>,
                <<"1", "2", "3", "4", "5", "6", "7", "8", "9", "0", "1", "2", "3", "4", "5", "6">>,
                <<"1", "2", "3", "4", "5", "6", "7", "X">> \o blanks,
                <<"7", " ", " ", " ", " ", " ", " ", " ">> \o blanks,
                blanks \o blanks,
                <<"1", "2", "3", "4", "5", "6", "7", "8">> \o blanks \o <<" ">>}
      base == MakePayload(1, 1, PachetA, 1, 1)
      materials == UNION {[1..n -> [cod_articol : {<<"1">>}, cantitate : quantities,
                                    val_produse : values]] : n \in 1..MaxMat}
  IN {[base EXCEPT !.pachet.cantitate_produsa = q, !.pachet.cost_total = c, !.produse = m] :
        q \in quantities, c \in costs, m \in materials}
     \cup {[base EXCEPT !.produse[1].cod_articol = c] : c \in codes}

\* producePachet was called with one of the payloads and is at line 1189
InitValidator ==
  /\ schema = SchemaCurrent
  /\ db = SeedEmpty
  /\ \E pl \in ValidatorPayloads :
       payload = [p \in Threads |-> IF p = "manual" THEN Some(pl) ELSE None]
  /\ pc = [p \in Threads |-> IF p = "manual" THEN "validate" ELSE "idle"]
  /\ request = [p \in Threads |-> None]
  /\ attempt = [p \in Threads |-> 0]
  /\ connection = [p \in Threads |-> "none"]
  /\ tx = [p \in Threads |-> None]
  /\ loc = [p \in Threads |-> NoLocals]
  /\ exc = [p \in Threads |-> None]
  /\ outcome = [p \in Threads |-> None]
  /\ calls = 1
  /\ applied = {}
  /\ hist = [p \in Threads |-> [NoHist EXCEPT !.before = SeedEmpty]]
  /\ NoBatch
  /\ NoEngine

NextValidator == \E p \in Threads : Validate(p)

SpecValidator == InitValidator /\ [][NextValidator]_vars

\* ------------------- the catalog and the ledger change between the attempts
\* The current shape with, in BON_DET and in PRED_DET, the key column (ID_U, NR)
\* generated by the database and seven columns no name mapping resolves: five
\* required ones of the types that have a default value (lines 670-681), a
\* nullable one, and a non-nullable BLOB with a database-side default
SchemaTyped ==
  LET more == <<CatalogField("STARE", 1, 8), CatalogField("ZI", 1, 12),
                CatalogField("ORA", 1, 13), CatalogField("MOMENT", 1, 35),
                CatalogField("NOTA", 1, 14), CatalogField("OBS", 0, 37),
                [CatalogField("POZA", 1, 261) EXCEPT
                   !.DEFAULT_SOURCE = Some(<<"D", "E", "F", "A", "U", "L", "T", " ", "N", "U", "L", "L">>)]>>
      Generated(f) == IF f.FIELD_NAME \in {"ID_U", "NR"} THEN [f EXCEPT !.IDENTITY_TYPE = 1] ELSE f
  IN [SchemaCurrent EXCEPT !.BON_DET = [i \in DOMAIN @ |-> Generated(@[i])] \o more,
                           !.PRED_DET = [i \in DOMAIN @ |-> Generated(@[i])] \o more]

\* A call is over, or its first attempt is and its second has not connected
Between(p) ==
  \/ pc[p] = "idle" /\ outcome[p] # None
  \/ pc[p] = "connect" /\ attempt[p] = 1

\* The administrator changes the catalog (DDL committed between two attempts
\* or two calls)
Migrated(p) ==
  /\ p = "manual"
  /\ Between(p)
  /\ \E sch \in {SchemaLegacy, SchemaCurrent, SchemaTyped, SchemaUnmapped("POZA"),
                  [SchemaCurrent EXCEPT !.PRED_DET = Append(@, CatalogField("POZA", 1, 261))]}
                 \ {schema} :
       schema' = sch
  /\ UNCHANGED <<batch, engine, db, pc, payload, request, attempt, connection, tx, loc, exc, outcome, calls,
                 applied, hist>>

\* Another workstation runs producePachet on the empty ledger and commits the
\* document of id_doc 2 on day 1 between two attempts or two calls
ForeignCommit(p) ==
  /\ p = "manual"
  /\ Between(p)
  /\ db.MISCARI = <<>>
  /\ db' = Ran(db, schema, <<Production(2, 1)>>)
  /\ UNCHANGED <<batch, engine, schema, pc, payload, request, attempt, connection, tx, loc, exc, outcome,
                 calls, applied, hist>>

InitEvolving ==
  /\ schema = SchemaLegacy
  /\ db = SeedEmpty
  /\ InitThreads
  /\ NoBatch
  /\ NoEngine

NextEvolving ==
  \E p \in Threads :
    \/ p = "manual" /\ \E d \in Dates : Call(p, Production(1, d))
    \/ Validate(p)
    \/ Connect(p)
    \/ Run(p)
    \/ KeyTaken(p)
    \/ Migrated(p)
    \/ ForeignCommit(p)
    \/ Commit(p)
    \/ Except(p)
    \/ Finally(p)

SpecEvolving == InitEvolving /\ [][NextEvolving]_vars

\* ------------------------------- the INSERT of the article is refused
\* The errors the server gives to the INSERT of line 487
InsertErrors == {UniqueKeyError("ARTICOLE"), ConnectionLost}

\* Another workstation committed the article of the package, under the code
\* the attempt computed, after the SELECT of line 466: the INSERT of line 487
\* raises, and the SELECT of line 504 sees the committed row or, in a
\* transaction that keeps its snapshot, does not. The INSERT can also fail for
\* the connection.
ArticleCollides(p) ==
  /\ pc[p] = "article"
  /\ LET t == Tx(p)
         pachet == request[p][1].pachet
         done == ArticleStep(View(t), schema, request[p][1], loc[p])
     IN /\ done.ins # None
        /\ done.ins[1].t = "ARTICOLE"
        /\ \E e \in InsertErrors : \E retry_row \in {None, Some(done.ins[1].row)} :
             LET handled == InsertRefused(View(t), schema, pachet, loc[p], e, retry_row)
             IN /\ pc' = [pc EXCEPT ![p] = handled.pc]
                /\ loc' = [loc EXCEPT ![p] = handled.loc]
                /\ exc' = [exc EXCEPT ![p] = handled.exc]
                /\ tx' = [tx EXCEPT ![p] = Some(t)]
                /\ db' = IF e = ConnectionLost THEN db
                         ELSE [db EXCEPT !.ARTICOLE = Append(@, done.ins[1].row)]
  /\ UNCHANGED <<batch, engine, schema, payload, request, attempt, connection, outcome, calls, applied, hist>>

InitCollision ==
  /\ \E sch \in {SchemaCurrent, SchemaLegacy} : schema = sch
  /\ db = SeedEmpty
  /\ InitThreads
  /\ NoBatch
  /\ NoEngine

NextCollision ==
  \E p \in Threads :
    \/ p = "manual" /\ CallAny(p)
    \/ Validate(p)
    \/ Connect(p)
    \/ Run(p)
    \/ ArticleCollides(p)
    \/ Commit(p)
    \/ Except(p)
    \/ Finally(p)

SpecCollision == InitCollision /\ [][NextCollision]_vars

\* --------------------------------------------- _run_pachet_import_sync
\* The thread of the job, the scheduler's or a manual one, runs the batch
\* "Import Pachete Saga: failed #{index}: {exc}" (line 356)
FailedMessage(i, e) ==
  <<"I", "m", "p", "o", "r", "t", " ", "P", "a", "c", "h", "e", "t", "e", " ", "S", "a", "g", "a", ":", " ", "f", "a", "i", "l", "e", "d", " ", "#">>
    \o IntStr(i) \o <<":", " ">> \o e.msg

\* "Import Pachete Saga finished with errors. success=..., failed=..." (lines 365-368)
FinishedWithErrors(succeeded, failed) ==
  RuntimeError(<<"I", "m", "p", "o", "r", "t", " ", "P", "a", "c", "h", "e", "t", "e", " ", "S", "a", "g", "a", " ", "f", "i", "n", "i", "s", "h", "e", "d", " ", "w", "i", "t", "h", " ", "e", "r", "r", "o", "r", "s", ".", " ", "s", "u", "c", "c", "e", "s", "s", "=">>
                 \o IntStr(succeeded) \o <<",", " ", "f", "a", "i", "l", "e", "d", "=">> \o IntStr(failed))

\* The items _extract_pachet_requests kept: productions, a repeated item, a
\* reversal, items the validator refuses
BatchItems ==
  {Production(1, 1), Production(2, 1), MakePayload(1, 1, PachetA, -1, 1)} \cup InvalidPayloads

BatchLists == UNION {[1..n -> BatchItems] : n \in 0..MaxCalls}

\* The loop is at "result = producePachet(item, db_settings)" (line 348)
ProcessItem(p) ==
  /\ p = "scheduler"
  /\ sync_result = None
  /\ index \in 1..Len(items)
  /\ outcome[p] = None
  /\ Call(p, items[index])

\* A loop that ends at the first call that raised
ItemDoneStopping(p) ==
  /\ p = "scheduler"
  /\ Idle(p)
  /\ outcome[p] # None
  /\ index \in 1..Len(items)
  /\ IF outcome[p][1].kind = "returned"
       THEN /\ success_count' = success_count + 1
            /\ index' = index + 1
            /\ UNCHANGED error_messages
       ELSE /\ error_messages' = Append(error_messages, FailedMessage(index, outcome[p][1].error))
            /\ index' = Len(items) + 1
            /\ UNCHANGED success_count
  /\ attempted' = Append(attempted, [item |-> payload[p][1], outcome |-> outcome[p][1]])
  /\ outcome' = [outcome EXCEPT ![p] = None]
  /\ UNCHANGED <<engine, db, schema, pc, payload, request, attempt, connection, tx, loc, exc, calls,
                 applied, hist, items, sync_result>>

\* The call is over: lines 349-354 when it returned, lines 355-358 when it
\* raised, and the loop goes to its next item
ItemDone(p) ==
  /\ p = "scheduler"
  /\ Idle(p)
  /\ outcome[p] # None
  /\ index \in 1..Len(items)
  /\ IF outcome[p][1].kind = "returned"
       THEN /\ success_count' = success_count + 1
            /\ UNCHANGED error_messages
       ELSE /\ error_messages' = Append(error_messages, FailedMessage(index, outcome[p][1].error))
            /\ UNCHANGED success_count
  /\ index' = index + 1
  /\ attempted' = Append(attempted, [item |-> payload[p][1], outcome |-> outcome[p][1]])
  /\ outcome' = [outcome EXCEPT ![p] = None]
  /\ UNCHANGED <<engine, db, schema, pc, payload, request, attempt, connection, tx, loc, exc, calls,
                 applied, hist, items, sync_result>>

\* After the loop (lines 360-369), or with nothing to process (lines 331-333)
Finish(p) ==
  /\ p = "scheduler"
  /\ sync_result = None
  /\ index = Len(items) + 1
  /\ sync_result' = Some(IF items = <<>> THEN Return(0)
                         ELSE IF error_messages # <<>>
                           THEN Raise(FinishedWithErrors(success_count, Len(error_messages)))
                         ELSE Return(success_count))
  /\ UNCHANGED <<engine, db, schema, pc, payload, request, attempt, connection, tx, loc, exc, outcome,
                 calls, applied, hist, items, index, success_count, error_messages, attempted>>

InitBatch ==
  /\ \E d \in {<<SchemaCurrent, SeedEmpty>>, <<SchemaCurrent, SeedHistory(SchemaCurrent)>>} :
       schema = d[1] /\ db = d[2]
  /\ InitThreads
  /\ items \in BatchLists
  /\ index = 1
  /\ success_count = 0
  /\ error_messages = <<>>
  /\ attempted = <<>>
  /\ sync_result = None
  /\ NoEngine

NextBatch ==
  \E p \in Threads :
    \/ ProcessItem(p)
    \/ Validate(p)
    \/ Connect(p)
    \/ ConnectFails(p)
    \/ Run(p)
    \/ Commit(p)
    \/ Except(p)
    \/ Finally(p)
    \/ ItemDone(p)
    \/ Finish(p)

SpecBatch == InitBatch /\ [][NextBatch]_vars

\* ------------------------------------------------------- SchedulerEngine
\* start and stop are called by the thread of the window only (lines 1159,
\* 1169, 1175, 1233), one call after the other; _run_loop runs on the
\* threads that start creates. A job is a callback that runs for as long as
\* it takes (its work is the machine above).
producing == <<db, schema, pc, payload, request, attempt, connection, tx, loc, exc, outcome,
               calls, applied, hist>>

Configs == [enable_sync_job : BOOLEAN, enable_export_job : BOOLEAN]

InJob == {"in_sync", "in_export"}

\* thread.is_alive()
IsAlive(l) == loop[l].pc \notin {"unstarted", "dead"}

\* The body of stop (lines 734-738) up to the join, called by stop itself or
\* from start(config) (line 726), and where the caller goes on after it
StopBegins(config, after_return, after_join) ==
  LET thread == _thread
  IN IF thread = None \/ ~IsAlive(thread[1])
       THEN /\ _thread' = None
            /\ ui' = [pc |-> after_return, thread |-> thread, config |-> config]
            /\ UNCHANGED _stop_event
       ELSE /\ _stop_event' = TRUE
            /\ ui' = [pc |-> after_join, thread |-> thread, config |-> config]
            /\ UNCHANGED _thread

\* SchedulerEngine.stop is called (lines 733-738)
StopCalled ==
  /\ ui.pc = "idle"
  /\ StopBegins(ui.config, "idle", "stop_join")
  /\ UNCHANGED <<producing, batch, _config, loop>>

\* SchedulerEngine.start(config) is called and calls stop (lines 724-726)
StartCalled ==
  /\ ui.pc = "idle"
  /\ \E l \in Loops : loop[l].pc = "unstarted"
  /\ \E config \in Configs : StopBegins(config, "start_rest", "start_join")
  /\ UNCHANGED <<producing, batch, _config, loop>>

\* thread.join(timeout=5) returns (lines 739-741)
JoinOver ==
  /\ _thread' = None
  /\ ui' = [ui EXCEPT !.pc = IF ui.pc = "stop_join" THEN "idle" ELSE "start_rest"]
  /\ UNCHANGED <<producing, batch, _stop_event, _config, loop>>

\* The thread ended within the 5 seconds
JoinReturns ==
  /\ ui.pc \in {"stop_join", "start_join"}
  /\ ~IsAlive(ui.thread[1])
  /\ JoinOver

\* The 5 seconds are over and the thread is still inside a job
JoinTimesOut ==
  /\ ui.pc \in {"stop_join", "start_join"}
  /\ loop[ui.thread[1]].pc \in InJob
  /\ JoinOver

\* The rest of start (lines 727-731): the new thread is at line 751, both
\* jobs due (next_sync and next_export are the time of its start)
StartRest ==
  /\ ui.pc = "start_rest"
  /\ LET l == CHOOSE n \in Loops : loop[n].pc = "unstarted" /\ \A m \in Loops : loop[m].pc = "unstarted" => n <= m
     IN /\ _config' = ui.config
        /\ _stop_event' = FALSE
        /\ _thread' = Some(l)
        /\ loop' = [loop EXCEPT ![l] = [pc |-> "while", config |-> ui.config, sync_due |-> TRUE,
                                        export_due |-> TRUE]]
  /\ ui' = [ui EXCEPT !.pc = "idle"]
  /\ UNCHANGED <<producing, batch>>

\* "while not self._stop_event.is_set()" (line 754), then lines 755-756; the
\* time read at line 755 may have reached next_sync, next_export
LoopTest(l) ==
  /\ loop[l].pc = "while"
  /\ IF _stop_event
       THEN loop' = [loop EXCEPT ![l].pc = "dead"]
       ELSE \E sync_due \in {loop[l].sync_due, TRUE}, export_due \in {loop[l].export_due, TRUE} :
              loop' = [loop EXCEPT ![l] = [pc |-> "sync", config |-> _config, sync_due |-> sync_due,
                                           export_due |-> export_due]]
  /\ UNCHANGED <<producing, batch, _thread, _stop_event, _config, ui>>

\* Line 758, and the call of line 759 when the job is enabled and due
SyncTest(l) ==
  /\ loop[l].pc = "sync"
  /\ loop' = [loop EXCEPT ![l].pc = IF loop[l].config.enable_sync_job /\ loop[l].sync_due
                                      THEN "in_sync" ELSE "export"]
  /\ UNCHANGED <<producing, batch, _thread, _stop_event, _config, ui>>

\* _run_job returns, the job over or failed (lines 743-748), then line 760
SyncDone(l) ==
  /\ loop[l].pc = "in_sync"
  /\ loop' = [loop EXCEPT ![l].pc = "export", ![l].sync_due = FALSE]
  /\ UNCHANGED <<producing, batch, _thread, _stop_event, _config, ui>>

\* Line 762, and the call of line 763 when the job is enabled and due
ExportTest(l) ==
  /\ loop[l].pc = "export"
  /\ loop' = [loop EXCEPT ![l].pc = IF loop[l].config.enable_export_job /\ loop[l].export_due
                                      THEN "in_export" ELSE "wait"]
  /\ UNCHANGED <<producing, batch, _thread, _stop_event, _config, ui>>

\* _run_job returns, then line 764
ExportDone(l) ==
  /\ loop[l].pc = "in_export"
  /\ loop' = [loop EXCEPT ![l].pc = "wait", ![l].export_due = FALSE]
  /\ UNCHANGED <<producing, batch, _thread, _stop_event, _config, ui>>

\* self._stop_event.wait(1) returns (line 766): the event is set, or a
\* second is over
Wait(l) ==
  /\ loop[l].pc = "wait"
  /\ loop' = [loop EXCEPT ![l].pc = "while"]
  /\ UNCHANGED <<producing, batch, _thread, _stop_event, _config, ui>>

InitEngine ==
  /\ schema = SchemaCurrent
  /\ db = SeedEmpty
  /\ InitThreads
  /\ NoBatch
  /\ NoEngine

NextEngine ==
  \/ StopCalled
  \/ StartCalled
  \/ JoinReturns
  \/ JoinTimesOut
  \/ StartRest
  \/ \E l \in Loops :
       \/ LoopTest(l)
       \/ SyncTest(l)
       \/ SyncDone(l)
       \/ ExportTest(l)
       \/ ExportDone(l)
       \/ Wait(l)

SpecEngine == InitEngine /\ [][NextEngine]_vars

\* ------------------------------------------------------------ properties
\* The last call of the thread is over
Done(p) == pc[p] = "idle" /\ outcome[p] # None

\* producePachet returned a result (line 1204)
Returned(p) == Done(p) /\ outcome[p][1].kind = "returned"

\* producePachet raised (lines 1189, 1194, 1211)
Failed(p) == Done(p) /\ outcome[p][1].kind = "raised"

\* The call wrote its document: its result says alreadyImported = False
Wrote(p) == Returned(p) /\ ~outcome[p][1].result.alreadyImported

\* The three tables of the ledger
Ledger(tables) == <<tables.MISCARI, tables.BON_DET, tables.PRED_DET>>

\* The BP rows of a date
BpRows(tables, data_doc) ==
  {r \in Rows(tables.MISCARI) : r.TIP_DOC = <<"B", "P">> /\ r.DATA = data_doc}

\* The exception is the one the server raises for a unique key
IsUniqueKeyError(e) == \E t \in Tables : e = UniqueKeyError(t)

\* C1: once a call has written and committed the document of a request, a
\* later call with the same request returns alreadyImported = true and adds
\* no row to MISCARI, BON_DET or PRED_DET.
C1_Idempotent ==
  \A p \in Threads :
    (Returned(p) /\ hist[p].repeat) =>
      /\ outcome[p][1].result.alreadyImported
      /\ Ledger(db) = Ledger(hist[p].before)

\* The rows of MISCARI of a request: those under the legacy key (MISCARI.ID is
\* the id_doc) and those of the document numbers PRED_DET records for the id_doc
RowsOfRequest(tables, pachet, tip_doc) ==
  {m \in Rows(tables.MISCARI) :
     /\ m.DATA = pachet.data
     /\ m.TIP_DOC = tip_doc
     /\ \/ m.ID = pachet.id_doc
        \/ \E d \in Rows(tables.PRED_DET) :
             HasValue(d, "ID_DOC") /\ d.ID_DOC = pachet.id_doc /\ d.NR_DOC = m.NR_DOC}

\* The ledger holds consumption rows of the request and no production row
OnlyConsumption(tables, pachet) ==
  /\ RowsOfRequest(tables, pachet, <<"B", "C">>) # {}
  /\ RowsOfRequest(tables, pachet, <<"B", "P">>) = {}

\* C2: a call that finds only BC rows and no BP row of its id_doc and date
\* raises and writes no row.
C2_PartialStateDetected ==
  \A p \in Threads :
    (Done(p) /\ hist[p].validated /\ OnlyConsumption(hist[p].before, request[p][1].pachet)) =>
      /\ Failed(p)
      /\ db = hist[p].before

\* C3: from the failure of a step on, and after producePachet raised, the
\* committed tables are what they were before the call.
C3_Atomicity ==
  \A p \in Threads :
    (Failed(p) \/ pc[p] \in {"except", "finally_raise", "finally_continue"}) =>
      db = hist[p].before

\* A call raised after its attempt had inserted an article and a BC row
C3_RaisedAfterInserts ==
  \E p \in Threads :
    /\ Failed(p)
    /\ hist[p].rollbacks > 0
    /\ loc[p].index > 1
    /\ ~\E r \in Rows(hist[p].before.ARTICOLE) : r.COD = loc[p].cod_pachet_db

C5_ExactlyOnce ==
  \A p, q \in Threads :
    (/\ p # q
     /\ Returned(p) /\ Returned(q)
     /\ hist[p].together /\ hist[q].together
     /\ payload[p] = payload[q]) =>
      ~(Wrote(p) /\ Wrote(q))

\* C6: a call that writes a document on a date gives it the greatest NR_DOC of
\* the BP rows committed for that date, plus one, whatever the other dates
\* hold, and commits its BP row under that number.
C6_NextNrDoc ==
  \A p \in Threads :
    Wrote(p) =>
      LET data_doc == request[p][1].pachet.data
          nr_doc == outcome[p][1].result.nrDoc
      IN /\ nr_doc = MaxOrZero({r.NR_DOC : r \in BpRows(hist[p].before, data_doc)}) + 1
         /\ \A r \in BpRows(hist[p].before, data_doc) : r.NR_DOC < nr_doc
         /\ \E r \in BpRows(db, data_doc) : r.NR_DOC = nr_doc

\* A call wrote number 2 on day 2, which held number 1, while day 1 held number 2
C6_SecondOfDayTwo ==
  \E p \in Threads :
    /\ Wrote(p)
    /\ request[p][1].pachet.data = 2
    /\ outcome[p][1].result.nrDoc = 2
    /\ \E r \in BpRows(hist[p].before, 2) : r.NR_DOC = 1
    /\ \E r \in BpRows(hist[p].before, 1) : r.NR_DOC = 2

\* C7: a call makes at most two attempts, and makes the second if and only if
\* the first failed with a uniqueness violation of the database.
C7_RetryOnlyOnUniqueViolation ==
  \A p \in Threads :
    /\ attempt[p] <= 1
    /\ attempt[p] = 1 => IsUniqueKeyError(hist[p].excs[1])
    /\ (Failed(p) /\ attempt[p] = 0 /\ hist[p].excs # <<>>) =>
         ~IsUniqueKeyError(hist[p].excs[1])

\* C8: when the second attempt fails, whatever the failure, producePachet
\* rolls back and raises it; there is no third attempt and no row of either
\* attempt is committed.
C8_SecondFailureIsFatal ==
  \A p \in Threads :
    /\ attempt[p] <= 1
    /\ Len(hist[p].excs) <= 2
    /\ (attempt[p] = 1 /\ pc[p] \in {"finally_raise", "finally_continue"}) =>
         pc[p] = "finally_raise" /\ tx[p] = None /\ db = hist[p].before
    /\ (Failed(p) /\ Len(hist[p].excs) = 2) =>
         /\ outcome[p][1].error = hist[p].excs[2]
         /\ hist[p].rollbacks = 2
         /\ hist[p].commits = 0
         /\ db = hist[p].before

\* Both attempts of a call failed with a uniqueness violation, and it raised
C8_TwoViolations ==
  \E p \in Threads :
    /\ Failed(p)
    /\ Len(hist[p].excs) = 2
    /\ IsUniqueKeyError(hist[p].excs[1])
    /\ IsUniqueKeyError(hist[p].excs[2])

\* C9: every connection a call opens is closed when the call returns, raises
\* or retries, and the transaction of a failed attempt is rolled back before
\* the error is raised or the retry starts.
C9_ClosedAndRolledBack ==
  \A p \in Threads :
    /\ hist[p].opened - hist[p].closed = (IF connection[p] = "open" THEN 1 ELSE 0)
    /\ pc[p] \in {"idle", "validate", "connect"} => connection[p] # "open"
    /\ pc[p] \in {"finally_raise", "finally_continue", "connect"} =>
         /\ tx[p] = None
         /\ hist[p].rollbacks = Len(hist[p].excs)
         /\ hist[p].rollbacks = hist[p].opened
    /\ (Failed(p) /\ hist[p].excs # <<>>) => hist[p].rollbacks = Len(hist[p].excs)

\* A call opened two connections, rolled the first attempt back, returned a
\* result and left both closed
C9_RetriedAndClosed ==
  \E p \in Threads :
    /\ Returned(p)
    /\ hist[p].opened = 2
    /\ hist[p].closed = 2
    /\ hist[p].rollbacks = 1

\* C10: a request that fails validation is raised at once: no connection is
\* opened, no attempt is repeated and no row is written; validation comes
\* before the first connect and changes nothing.
C10_InvalidRequest ==
  \A p \in Threads :
    /\ pc[p] = "validate" =>
         hist[p].opened = 0 /\ connection[p] = "none" /\ db = hist[p].before
    /\ hist[p].opened > 0 => hist[p].validated
    /\ (Done(p) /\ ~hist[p].validated) =>
         /\ Failed(p)
         /\ outcome[p][1].error.cls = "ValueError"
         /\ hist[p].opened = 0
         /\ connection[p] = "none"
         /\ attempt[p] = 0
         /\ db = hist[p].before

\* A call with an invalid payload raised
C10_Rejected ==
  \E p \in Threads :
    /\ Failed(p)
    /\ ~hist[p].validated
    /\ payload[p][1] \in InvalidPayloads

\* C11: when every other rule is satisfied, the validator accepts the payload
\* if and only if the sum of the values of the materials and the total cost
\* are equal once rounded half-up to 4 decimals; so every accepted request has
\* quantize(sum(values)) = quantize(cost_total).
C11_SumConsistency ==
  \A p \in Threads :
    (payload[p] # None /\ pc[p] # "validate") =>
      LET pachet_raw == payload[p][1].pachet
          produse_raw == payload[p][1].produse
          others == /\ pachet_raw.cantitate_produsa # 0
                    /\ pachet_raw.cost_total # 0
                    /\ \A i \in DOMAIN produse_raw :
                         /\ produse_raw[i].cantitate # 0
                         /\ Sign(produse_raw[i].cantitate) = Sign(pachet_raw.cantitate_produsa)
                         /\ produse_raw[i].val_produse # 0
                         /\ produse_raw[i].cod_articol = <<"1">>
          equal == _quantize_money(SumVal(produse_raw)) = _quantize_money(pachet_raw.cost_total)
      IN /\ request[p] # None => equal
         /\ others => (request[p] # None <=> equal)

\* C11, as the code has it: when every other rule is satisfied, the validator
\* accepts the payload if and only if the absolute values of the sum of the
\* values and of the total cost are equal once rounded half-up to 4 decimals;
\* the signs of the two are free.
C11_SumConsistencyOfAbsolutes ==
  \A p \in Threads :
    (payload[p] # None /\ pc[p] # "validate") =>
      LET pachet_raw == payload[p][1].pachet
          produse_raw == payload[p][1].produse
          others == /\ pachet_raw.cantitate_produsa # 0
                    /\ pachet_raw.cost_total # 0
                    /\ \A i \in DOMAIN produse_raw :
                         /\ produse_raw[i].cantitate # 0
                         /\ Sign(produse_raw[i].cantitate) = Sign(pachet_raw.cantitate_produsa)
                         /\ produse_raw[i].val_produse # 0
                         /\ produse_raw[i].cod_articol = <<"1">>
          equal == (2 * Abs(SumVal(produse_raw)) + MoneyQ) \div (2 * MoneyQ)
                     = (2 * Abs(pachet_raw.cost_total) + MoneyQ) \div (2 * MoneyQ)
      IN /\ request[p] # None => equal
         /\ others => (request[p] # None <=> equal)

\* The validator accepted a payload whose sum of values and total cost have
\* opposite signs, and one whose sum equals the cost only after rounding
C11_AcceptedOnAbsolutes ==
  \E p \in Threads :
    /\ request[p] # None
    /\ \/ SumVal(payload[p][1].produse) = -payload[p][1].pachet.cost_total
       \/ SumVal(payload[p][1].produse) = payload[p][1].pachet.cost_total - 5

\* C12: every request the validator accepts has a total cost that is not zero
\* and has the sign of the produced quantity.
C12_CostSign ==
  \A p \in Threads :
    request[p] # None =>
      /\ request[p][1].pachet.cost_total # 0
      /\ Sign(request[p][1].pachet.cost_total) = Sign(request[p][1].pachet.cantitate_produsa)

\* C13: normalizeCodArticol turns an input that is 1 to 8 digits once trimmed
\* into the digits padded with zeros on the left to 8 characters and followed
\* by 8 blanks; it returns a 16-character input whose first 8 characters are
\* digits unchanged; it raises an error on every other input.
C13_NormalizeCodArticol ==
  \A p \in Threads :
    (/\ payload[p] # None /\ pc[p] # "validate"
     /\ payload[p][1] = [MakePayload(1, 1, PachetA, 1, 1) EXCEPT
                           !.produse[1].cod_articol = payload[p][1].produse[1].cod_articol]) =>
      LET raw == payload[p][1].produse[1].cod_articol
          trimmed == Strip(raw)
          digits(s) == s # <<>> /\ \A i \in DOMAIN s : s[i] \in {"0", "1", "2", "3", "4", "5", "6", "7", "8", "9"}
          padded == [i \in 1..16 |-> IF i <= 8 - Len(trimmed) THEN "0"
                                     ELSE IF i <= 8 THEN trimmed[i - (8 - Len(trimmed))]
                                     ELSE " "]
          short ==  digits(trimmed) /\ Len(trimmed) <= 8
          fixed == Len(raw) = 16 /\ digits(SubSeq(raw, 1, 8))
          accepted == request[p] # None
      IN /\ short => accepted /\ request[p][1].produse[1].cod_articol_db = padded
         /\ fixed => accepted /\ request[p][1].produse[1].cod_articol_db = raw
         /\ (~short /\ ~fixed) => Failed(p) /\ outcome[p][1].error.cls = "ValueError"

\* C13, as the code has it: the padding applies to an input that is not 16
\* characters long and is 1 to 8 digits once trimmed; an input of 16
\* characters is returned unchanged when its first 8 characters are digits and
\* is an error otherwise, even when it is 1 to 8 digits once trimmed; every
\* other input is an error.
C13_NormalizeCodArticolByLength ==
  \A p \in Threads :
    (/\ payload[p] # None /\ pc[p] # "validate"
     /\ payload[p][1] = [MakePayload(1, 1, PachetA, 1, 1) EXCEPT
                           !.produse[1].cod_articol = payload[p][1].produse[1].cod_articol]) =>
      LET raw == payload[p][1].produse[1].cod_articol
          trimmed == Strip(raw)
          digits(s) == s # <<>> /\ \A i \in DOMAIN s : s[i] \in {"0", "1", "2", "3", "4", "5", "6", "7", "8", "9"}
          padded == [i \in 1..16 |-> IF i <= 8 - Len(trimmed) THEN "0"
                                     ELSE IF i <= 8 THEN trimmed[i - (8 - Len(trimmed))]
                                     ELSE " "]
          short == Len(raw) # 16 /\ digits(trimmed) /\ Len(trimmed) <= 8
          fixed == Len(raw) = 16 /\ digits(SubSeq(raw, 1, 8))
          accepted == request[p] # None
      IN /\ short => accepted /\ request[p][1].produse[1].cod_articol_db = padded
         /\ fixed => accepted /\ request[p][1].produse[1].cod_articol_db = raw
         /\ (~short /\ ~fixed) => Failed(p) /\ outcome[p][1].error.cls = "ValueError"

\* A 16-character code that is one digit once trimmed was refused
C13_ShortCodeOfFixedLength ==
  \E p \in Threads :
    /\ payload[p] # None
    /\ payload[p][1].produse[1].cod_articol = <<"7", " ", " ", " ", " ", " ", " ", " ", " ", " ", " ", " ", " ", " ", " ", " ">>
    /\ Failed(p)
    /\ outcome[p][1].error.cls = "ValueError"

\* C14: calls running one after the other. A production that writes its
\* document and whose name no ARTICOLE row has adds exactly one ARTICOLE row,
\* of that name and under a new code; a call whose name an ARTICOLE row has
\* adds none and, when it writes, uses the code of that row; a reversal whose
\* name no row has leaves ARTICOLE and the ledger as they were, and raises
\* unless it is answered as already imported.
C14_ArticleCreation ==
  \A p \in Threads :
    (Done(p) /\ hist[p].validated) =>
      LET pachet == request[p][1].pachet
          before == hist[p].before.ARTICOLE
          named == {r \in Rows(before) : Strip(r.DENUMIRE) = Strip(pachet.denumire)}
          added == SubSeq(db.ARTICOLE, Len(before) + 1, Len(db.ARTICOLE))
          imported == Returned(p) /\ outcome[p][1].result.alreadyImported
      IN /\ SubSeq(db.ARTICOLE, 1, Len(before)) = before
         /\ (Wrote(p) /\ named = {} /\ pachet.cantitate_produsa > 0) =>
              /\ Len(added) = 1
              /\ added[1].DENUMIRE = pachet.denumire
              /\ Strip(added[1].COD) = outcome[p][1].result.codPachet
              /\ \A r \in Rows(before) : r.COD # added[1].COD
         /\ named # {} =>
              /\ added = <<>>
              /\ Wrote(p) => \E r \in named : Strip(r.COD) = outcome[p][1].result.codPachet
         /\ (named = {} /\ pachet.cantitate_produsa < 0) =>
              /\ db = hist[p].before
              /\ ~imported => Failed(p)

\* C15: a call answered as already imported returns the NR_DOC and the COD_ART
\* of a BP row the date held before the call, and leaves the four tables,
\* ARTICOLE included, as it found them, for a production and for a reversal.
C15_SkipWritesNothing ==
  \A p \in Threads :
    (Returned(p) /\ outcome[p][1].result.alreadyImported) =>
      LET result == outcome[p][1].result
      IN /\ db = hist[p].before
         /\ \E r \in BpRows(hist[p].before, request[p][1].pachet.data) :
              /\ r.NR_DOC = result.nrDoc
              /\ r.ID = result.miscariId
              /\ HasValue(r, "COD_ART")
              /\ Strip(r.COD_ART) = result.codPachet

\* C16: within a call at most one connection is open, and a transaction only
\* on the open connection; the connection of the second attempt is opened
\* after the first was rolled back and closed; every connection opened ends at
\* most one transaction, by one commit or one rollback, and exactly one once
\* it is closed.
C16_OneConnection ==
  \A p \in Threads :
    /\ hist[p].opened - hist[p].closed = IF connection[p] = "open" THEN 1 ELSE 0
    /\ tx[p] # None => connection[p] = "open"
    /\ hist[p].opened <= attempt[p] + 1
    /\ hist[p].commits + hist[p].rollbacks <= hist[p].opened
    /\ connection[p] = "closed" => hist[p].commits + hist[p].rollbacks = hist[p].closed
    /\ (pc[p] = "connect" /\ attempt[p] = 1) =>
         /\ connection[p] = "closed"
         /\ tx[p] = None
         /\ hist[p].opened = 1 /\ hist[p].closed = 1
         /\ hist[p].rollbacks = 1 /\ hist[p].commits = 0

\* The second attempt has its connection and its transaction, the first being
\* rolled back and closed
C16_RetryConnected ==
  \E p \in Threads :
    /\ attempt[p] = 1
    /\ connection[p] = "open"
    /\ tx[p] # None
    /\ hist[p].opened = 2 /\ hist[p].closed = 1 /\ hist[p].rollbacks = 1

\* The attempt got its result from _execute_produce_pachet_once (line 1202)
\* and connection.commit() raised (line 1203)
CommitFailed(p) ==
  /\ pc[p] \in {"except", "finally_continue", "finally_raise", "idle"}
  /\ loc[p].result # None
  /\ exc[p] # None

\* C17: a call returns a result only after the one commit of the returning
\* attempt, which raised nothing, and the rows the result names are committed;
\* an attempt whose commit raised is rolled back and then retried or raised
\* again: the call does not return its result, and none of its rows is
\* committed.
C17_ReturnsOnlyCommitted ==
  \A p \in Threads :
    /\ Returned(p) =>
         /\ hist[p].commits = 1
         /\ Len(hist[p].excs) = attempt[p]
         /\ tx[p] = None
         /\ outcome[p][1].result = loc[p].result[1]
         /\ \E r \in BpRows(db, request[p][1].pachet.data) :
              r.NR_DOC = outcome[p][1].result.nrDoc /\ r.ID = outcome[p][1].result.miscariId
    /\ (CommitFailed(p) /\ pc[p] # "except") =>
         /\ tx[p] = None
         /\ hist[p].commits = 0
         /\ hist[p].rollbacks = attempt[p] + 1
         /\ hist[p].excs[Len(hist[p].excs)] = exc[p][1]
         /\ db = hist[p].before
         /\ pc[p] = "finally_continue" <=> (_is_unique_violation(exc[p][1]) /\ attempt[p] = 0)
         /\ Done(p) => (Failed(p) /\ outcome[p][1].error = exc[p][1])

\* The commit of a call that was to write a document raised, and the call raised
C17_CommitRaised ==
  \E p \in Threads :
    /\ CommitFailed(p)
    /\ Failed(p)
    /\ ~loc[p].result[1].alreadyImported

\* The exception is one of the schema errors of _insert_bon_det_rows and
\* _insert_pred_det_rows: the table has no readable or no writable column, a
\* required column got no value, or no column got one
IsSchemaError(e) ==
  /\ e.cls = "RuntimeError"
  /\ StartsWith(e.msg, <<"C", "a", "n", "n", "o", "t", " ", "i", "n", "s", "e", "r", "t">>)
  /\ Contains(e.msg, <<"c", "o", "l", "u", "m", "n", "s">>)

\* C18: a call one of whose attempts raised a schema error made that attempt
\* only and raised the error; and no document is written while BON_DET or
\* PRED_DET has no readable column.
C18_SchemaErrorFatal ==
  \A p \in Threads :
    /\ (Done(p) /\ \E i \in DOMAIN hist[p].excs : IsSchemaError(hist[p].excs[i])) =>
         /\ Failed(p)
         /\ attempt[p] = 0
         /\ hist[p].opened = 1
         /\ hist[p].excs = <<outcome[p][1].error>>
    /\ Wrote(p) => (schema.BON_DET # <<>> /\ schema.PRED_DET # <<>>)

\* C19: a step in which a lookup of _find_existing_document raises takes the
\* attempt to its except block, never on to the write phase or to the answer
\* that the document exists.
C19_NoErrorSwallowed ==
  [][\A p \in Threads : LookupFails(p) => pc'[p] = "except"]_vars

\* The exception is the one of lines 562-566
IsInconsistent(e) ==
  /\ e.cls = "RuntimeError"
  /\ StartsWith(e.msg, <<"E", "x", "i", "s", "t", "i", "n", "g", " ", "p", "r", "o", "d", "u", "c", "t", "i", "o", "n", " ", "d", "o", "c", "u", "m", "e", "n", "t", " ", "i", "s", " ", "i", "n", "c", "o", "n", "s", "i", "s", "t", "e", "n", "t">>)

\* C20: an attempt in which the resolver raised for an inconsistent document
\* is the only attempt of its call: the call opens one connection, rolls back
\* once, commits nothing, raises that error, and leaves the four tables as it
\* found them; the date of the request did hold a number with BC rows and no
\* BP row, or with BP rows and no BC row.
C20_InconsistentIsFatal ==
  \A p \in Threads :
    (hist[p].excs # <<>> /\ IsInconsistent(hist[p].excs[1])) =>
      LET pachet == request[p][1].pachet
          numbers == {r.NR_DOC : r \in {m \in Rows(hist[p].before.MISCARI) : m.DATA = pachet.data}}
      IN /\ pc[p] \in {"finally_raise", "idle"}
         /\ attempt[p] = 0
         /\ hist[p].opened = 1
         /\ hist[p].rollbacks = 1
         /\ hist[p].commits = 0
         /\ tx[p] = None
         /\ db = hist[p].before
         /\ Done(p) => (Failed(p) /\ outcome[p][1].error = hist[p].excs[1])
         /\ \E nr_doc \in numbers :
              LET counts == select_doc_counts_by_date_nr_doc(hist[p].before, pachet.data, nr_doc)
              IN (counts.bc_count = 0) # (counts.bp_count = 0)

\* A call raised for a document with BC rows and no BP row
C20_OnlyConsumptionRaised ==
  \E p \in Threads :
    /\ Failed(p)
    /\ IsInconsistent(outcome[p][1].error)
    /\ OnlyConsumption(hist[p].before, request[p][1].pachet)

\* C21: a call is answered as already imported only if the document of its
\* id_doc and its date was written before: an earlier call wrote it, or the
\* tables the call found hold a PRED_DET row of that id_doc and date under the
\* number returned.
C21_NoFalseComplete ==
  \A p \in Threads :
    (Returned(p) /\ outcome[p][1].result.alreadyImported) =>
      \/ \E a \in applied : /\ a.pachet.id_doc = payload[p][1].pachet.id_doc
                            /\ a.pachet.data = payload[p][1].pachet.data
      \/ \E d \in Rows(hist[p].before.PRED_DET) :
           /\ HasValue(d, "ID_DOC") /\ d.ID_DOC = request[p][1].pachet.id_doc
           /\ HasValue(d, "DATA") /\ d.DATA = request[p][1].pachet.data
           /\ d.NR_DOC = outcome[p][1].result.nrDoc

\* C22: after a call has written its document and its PRED_DET row, the
\* resolver, run on the committed tables for the same request, finds the
\* document and gives the number the call returned.
C22_RoundTrip ==
  \A p \in Threads :
    (Wrote(p) /\ outcome[p][1].result.predDetInserted = 1) =>
      LET existing == _find_existing_document(db, schema, request[p][1].pachet, <<FALSE, FALSE>>)
      IN /\ existing.ok
         /\ existing.value # None
         /\ existing.value[1].nr_doc = outcome[p][1].result.nrDoc

\* C23: the rows of an attempt, in the order the attempt inserted them. The
\* MISCARI rows come after the article of the package is resolved (its
\* ARTICOLE row inserted when the name was absent) and carry the number
\* allocated; the BC rows are those of the materials in request order; the BP
\* row comes after all of them and is the last MISCARI row; a BON_DET row
\* comes after the BP row; the PRED_DET row comes after all BON_DET rows.
C23_InsertionOrder ==
  \A p \in Threads :
    (tx[p] # None /\ request[p] # None) =>
      LET w == tx[p][1].w
          produse == request[p][1].produse
          pachet == request[p][1].pachet
          n == Len(produse)
          bc == {i \in DOMAIN w.MISCARI : w.MISCARI[i].TIP_DOC = <<"B", "C">>}
          bp == {i \in DOMAIN w.MISCARI : w.MISCARI[i].TIP_DOC = <<"B", "P">>}
          named == {r \in Rows(SubSeq(db.ARTICOLE, 1, tx[p][1].snap.ARTICOLE)) :
                      Strip(r.DENUMIRE) = Strip(pachet.denumire)}
      IN /\ pc[p] \in {"find", "article"} =>
              (w.MISCARI = <<>> /\ w.BON_DET = <<>> /\ w.PRED_DET = <<>>)
         /\ w.MISCARI # <<>> =>
              /\ named = {} => (Len(w.ARTICOLE) = 1 /\ w.ARTICOLE[1].DENUMIRE = pachet.denumire)
              /\ \A i \in DOMAIN w.MISCARI :
                   w.MISCARI[i].NR_DOC = loc[p].nr_doc /\ w.MISCARI[i].ID = loc[p].miscari_doc_id
         /\ \A i \in bc : i <= n /\ w.MISCARI[i].COD_ART = produse[i].cod_articol_db
         /\ bp # {} => (bc = 1..n /\ bp = {n + 1})
         /\ w.BON_DET # <<>> => bp # {}
         /\ Len(w.BON_DET) <= n
         /\ w.PRED_DET # <<>> => (Len(w.BON_DET) = n /\ Len(w.PRED_DET) = 1)

\* An attempt has inserted the article, the BC rows of MaxMat materials, the BP
\* row, the BON_DET lines and the PRED_DET row
C23_AllInserted ==
  \E p \in Threads :
    /\ tx[p] # None
    /\ pc[p] = "commit"
    /\ Len(tx[p][1].w.ARTICOLE) = 1
    /\ Len(tx[p][1].w.MISCARI) = MaxMat + 1
    /\ Len(tx[p][1].w.BON_DET) = MaxMat
    /\ Len(tx[p][1].w.PRED_DET) = 1

\* C24: a call that writes a document of n materials adds n + 1 MISCARI rows.
\* When MISCARI has the ID_U column, row i of them carries the greatest ID_U
\* the ledger held plus i, and the result gives the first and the last of these
\* values; when it has not, no row carries an ID_U and the result gives none.
C24_SecondarySequence ==
  \A p \in Threads :
    Wrote(p) =>
      LET before == hist[p].before.MISCARI
          added == SubSeq(db.MISCARI, Len(before) + 1, Len(db.MISCARI))
          last == MaxOrZero({r.ID_U : r \in {m \in Rows(before) : HasValue(m, "ID_U")}})
          result == outcome[p][1].result
      IN /\ Len(added) = Len(request[p][1].produse) + 1
         /\ IF "ID_U" \in schema.MISCARI
              THEN /\ \A i \in DOMAIN added :
                        HasValue(added[i], "ID_U") /\ added[i].ID_U = last + i
                   /\ result.idUStart = Some(last + 1)
                   /\ result.idUEnd = Some(last + Len(added))
              ELSE /\ \A i \in DOMAIN added : ~HasValue(added[i], "ID_U")
                   /\ result.idUStart = None
                   /\ result.idUEnd = None

\* A call wrote MaxMat BC rows and the BP row after the ID_U values of a ledger
\* that held some
C24_SequenceContinued ==
  \E p \in Threads :
    /\ Wrote(p)
    /\ Len(request[p][1].produse) = MaxMat
    /\ outcome[p][1].result.idUStart # None
    /\ outcome[p][1].result.idUStart[1] > 1
    /\ outcome[p][1].result.idUEnd = Some(outcome[p][1].result.idUStart[1] + MaxMat)

\* C25: a call that writes a document gives all its MISCARI rows one ID, the
\* greatest ID of the whole ledger plus one: it is greater than every ID the
\* ledger held, whatever the date, and no row of an earlier document has it.
C25_MovementId ==
  \A p \in Threads :
    Wrote(p) =>
      LET before == hist[p].before.MISCARI
          added == SubSeq(db.MISCARI, Len(before) + 1, Len(db.MISCARI))
          miscari_id == outcome[p][1].result.miscariId
      IN /\ miscari_id = MaxOrZero({r.ID : r \in Rows(before)}) + 1
         /\ \A r \in Rows(before) : r.ID < miscari_id
         /\ added # <<>>
         /\ \A i \in DOMAIN added : added[i].ID = miscari_id

\* A call wrote a document on day 2 under an ID greater than the IDs of day 1
C25_IdAcrossDates ==
  \E p \in Threads :
    /\ Wrote(p)
    /\ request[p][1].pachet.data = 2
    /\ hist[p].before.MISCARI # <<>>
    /\ \A r \in Rows(hist[p].before.MISCARI) : r.DATA = 1
    /\ outcome[p][1].result.miscariId > 1

\* C26: the rows an attempt is about to commit have the shape of the catalog
\* and continue the sequences of the ledger as they were when the attempt
\* began, whatever the catalog and the ledger were in an earlier attempt or
\* call: the MISCARI rows carry the greatest ID plus one, the greatest BP
\* number of the date plus one, an ID_U (the greatest plus the position of the
\* row) if and only if MISCARI has the column, and the BP row a PRET if and
\* only if MISCARI has it; the BON_DET and PRED_DET rows have columns of the
\* catalog only, and continue BON_DET.ID_U and PRED_DET.NR.
C26_ReadPerAttempt ==
  \A p \in Threads :
    (pc[p] = "commit" /\ tx[p] # None /\ ~loc[p].result[1].alreadyImported) =>
      LET w == tx[p][1].w
          v == [n \in Tables |-> SubSeq(db[n], 1, tx[p][1].snap[n])]
          pachet == request[p][1].pachet
          id == MaxOrZero({r.ID : r \in Rows(v.MISCARI)}) + 1
          nr_doc == MaxOrZero({r.NR_DOC : r \in BpRows(v, pachet.data)}) + 1
          Last(table, column) == MaxOrZero({r[column] : r \in {m \in Rows(table) : HasValue(m, column)}})
      IN /\ \A i \in DOMAIN w.MISCARI :
              /\ w.MISCARI[i].ID = id
              /\ w.MISCARI[i].NR_DOC = nr_doc
              /\ HasValue(w.MISCARI[i], "ID_U") <=> "ID_U" \in schema.MISCARI
              /\ HasValue(w.MISCARI[i], "ID_U") => w.MISCARI[i].ID_U = Last(v.MISCARI, "ID_U") + i
              /\ w.MISCARI[i].TIP_DOC = <<"B", "P">> =>
                   (HasValue(w.MISCARI[i], "PRET") <=> "PRET" \in schema.MISCARI)
         /\ \A i \in DOMAIN w.BON_DET :
              /\ DOMAIN w.BON_DET[i] \subseteq RelationColumns(schema, "BON_DET")
              /\ w.BON_DET[i].ID = id /\ w.BON_DET[i].NR_DOC = nr_doc
              /\ HasValue(w.BON_DET[i], "ID_U") => w.BON_DET[i].ID_U = Last(v.BON_DET, "ID_U") + i
         /\ \A i \in DOMAIN w.PRED_DET :
              /\ DOMAIN w.PRED_DET[i] \subseteq RelationColumns(schema, "PRED_DET")
              /\ w.PRED_DET[i].NR_DOC = nr_doc
              /\ HasValue(w.PRED_DET[i], "NR") => w.PRED_DET[i].NR = Last(v.PRED_DET, "NR") + 1

\* The second attempt of the first call is about to commit rows in the shape
\* of a catalog, and after a document, that were both committed after its
\* first attempt
C26_ChangedBetweenAttempts ==
  \E p \in Threads :
    /\ pc[p] = "commit"
    /\ calls = 1
    /\ attempt[p] = 1
    /\ tx[p] # None
    /\ db.MISCARI # <<>>
    /\ tx[p][1].w.MISCARI # <<>>
    /\ tx[p][1].w.MISCARI[1].ID > 1
    /\ HasValue(tx[p][1].w.MISCARI[1], "ID_U")

\* C27: in every BON_DET and PRED_DET row an attempt has inserted, a column the
\* catalog marks as identity is absent, a column that is not identity, is
\* non-nullable and has no default in the catalog is present, and a column that
\* is nullable or has a default, and that no name mapping knows, is absent.
C27_Classification ==
  \A p \in Threads : \A t \in {"BON_DET", "PRED_DET"} :
    tx[p] # None =>
      \A i \in DOMAIN tx[p][1].w[t] : \A j \in DOMAIN schema[t] :
        LET row == tx[p][1].w[t][i]
            f == schema[t][j]
            non_nullable == f.NULL_FLAG = 1
            has_default == f.DEFAULT_SOURCE # None
        IN /\ f.IDENTITY_TYPE >= 0 => ~HasValue(row, f.FIELD_NAME)
           /\ (f.IDENTITY_TYPE < 0 /\ non_nullable /\ ~has_default) => HasValue(row, f.FIELD_NAME)
           /\ (f.FIELD_NAME \in {"STARE", "ZI", "ORA", "MOMENT", "NOTA", "OBS", "POZA"}
               /\ (~non_nullable \/ has_default)) => ~HasValue(row, f.FIELD_NAME)

\* An attempt is about to commit detail rows of a catalog with identity
\* columns, with a nullable column and with a non-nullable column that has a
\* default: the rows have none of them, and have the non-nullable STARE
C27_IdentityLeftOut ==
  \E p \in Threads :
    /\ pc[p] = "commit"
    /\ tx[p] # None
    /\ schema = SchemaTyped
    /\ tx[p][1].w.BON_DET # <<>>
    /\ tx[p][1].w.PRED_DET # <<>>
    /\ ~HasValue(tx[p][1].w.BON_DET[1], "ID_U")
    /\ ~HasValue(tx[p][1].w.PRED_DET[1], "NR")
    /\ ~HasValue(tx[p][1].w.BON_DET[1], "POZA")
    /\ ~HasValue(tx[p][1].w.PRED_DET[1], "OBS")
    /\ HasValue(tx[p][1].w.BON_DET[1], "STARE")

\* The catalog row is of a column that is not identity and whose name no name
\* mapping knows
Unmapped(f) ==
  /\ f.IDENTITY_TYPE < 0
  /\ f.FIELD_NAME \in {"STARE", "ZI", "ORA", "MOMENT", "NOTA", "OBS", "POZA"}

\* The catalog row is of a required column of a type that has no default
Unfillable(f) ==
  /\ Unmapped(f)
  /\ f.NULL_FLAG = 1
  /\ f.DEFAULT_SOURCE = None
  /\ f.FIELD_TYPE \notin {7, 8, 10, 16, 23, 27, 12, 13, 35, 14, 37}

\* C28: in every BON_DET and PRED_DET row an attempt has inserted, a column
\* that a name mapping resolves has the mapped value (the document keys, the
\* date, the article and the quantity); a required column that no mapping
\* resolves has 0 if it is numeric or boolean, the date of the request if it is
\* a DATE, midnight if it is a TIME, the date of the request at midnight if it
\* is a TIMESTAMP and the empty string if it is CHAR or VARCHAR; an optional
\* column that no mapping resolves is absent. While BON_DET has a required
\* column that no mapping resolves and whose type has no default, an attempt
\* inserts no detail row, and once it has inserted the MISCARI rows it fails
\* with an error that names BON_DET and the column; while PRED_DET has one, an
\* attempt inserts no PRED_DET row, and once it has inserted the BON_DET rows
\* it fails with an error that names PRED_DET and the column.
C28_ColumnResolution ==
  \A p \in Threads :
    tx[p] # None =>
      LET w == tx[p][1].w
          pachet == request[p][1].pachet
          produse == request[p][1].produse
          Mapped(t, i) ==
            [NR_DOC |-> loc[p].nr_doc,
             DATA |-> pachet.data,
             ID_DOC |-> pachet.id_doc,
             ID |-> loc[p].miscari_doc_id,
             ID_UNIC |-> loc[p].miscari_doc_id,
             COD_ART |-> IF t = "BON_DET" THEN produse[i].cod_articol_db ELSE loc[p].cod_pachet_db,
             CANTITATE |-> IF t = "BON_DET" THEN -produse[i].cantitate ELSE pachet.cantitate_produsa]
          TypeDefault(f) ==
            IF f.FIELD_TYPE \in {7, 8, 10, 16, 23, 27} THEN 0
            ELSE IF f.FIELD_TYPE = 12 THEN pachet.data
            ELSE IF f.FIELD_TYPE = 13 THEN [hour |-> 0, minute |-> 0, second |-> 0]
            ELSE IF f.FIELD_TYPE = 35 THEN [date |-> pachet.data, hour |-> 0, minute |-> 0, second |-> 0]
            ELSE <<>>
      IN /\ \A t \in {"BON_DET", "PRED_DET"} : \A i \in DOMAIN w[t] : \A j \in DOMAIN schema[t] :
              LET f == schema[t][j]
                  row == w[t][i]
              IN /\ f.FIELD_NAME \in DOMAIN Mapped(t, i) =>
                      /\ HasValue(row, f.FIELD_NAME)
                      /\ row[f.FIELD_NAME] = Mapped(t, i)[f.FIELD_NAME]
                 /\ (Unmapped(f) /\ f.NULL_FLAG = 1 /\ f.DEFAULT_SOURCE = None) =>
                      /\ HasValue(row, f.FIELD_NAME)
                      /\ row[f.FIELD_NAME] = TypeDefault(f)
                 /\ (Unmapped(f) /\ ~(f.NULL_FLAG = 1 /\ f.DEFAULT_SOURCE = None)) =>
                      ~HasValue(row, f.FIELD_NAME)
         /\ \A j \in DOMAIN schema.BON_DET :
              Unfillable(schema.BON_DET[j]) =>
                /\ w.BON_DET = <<>>
                /\ w.PRED_DET = <<>>
                /\ (pc[p] \in {"pred_det", "commit"}) => loc[p].existing # None
                /\ (pc[p] = "except" /\ \E i \in DOMAIN w.MISCARI : w.MISCARI[i].TIP_DOC = <<"B", "P">>) =>
                     /\ exc[p] # None
                     /\ exc[p][1].cls = "RuntimeError"
                     /\ StartsWith(exc[p][1].msg, <<"C", "a", "n", "n", "o", "t", " ", "i", "n", "s", "e", "r", "t", " ", "B", "O", "N", "_", "D", "E", "T", " ", "l", "i", "n", "e", " ", "1", ".", " ", "M", "i", "s", "s", "i", "n", "g", " ", "r", "e", "q", "u", "i", "r", "e", "d">>)
                     /\ Contains(exc[p][1].msg, Chars(schema.BON_DET[j].FIELD_NAME))
         /\ \A j \in DOMAIN schema.PRED_DET :
              Unfillable(schema.PRED_DET[j]) =>
                /\ w.PRED_DET = <<>>
                /\ pc[p] = "commit" => loc[p].existing # None
                /\ (pc[p] = "except" /\ Len(w.BON_DET) = Len(produse)) =>
                     /\ exc[p] # None
                     /\ exc[p][1].cls = "RuntimeError"
                     /\ StartsWith(exc[p][1].msg, <<"C", "a", "n", "n", "o", "t", " ", "i", "n", "s", "e", "r", "t", " ", "i", "n", "t", "o", " ", "P", "R", "E", "D", "_", "D", "E", "T", ".", " ", "M", "i", "s", "s", "i", "n", "g", " ", "r", "e", "q", "u", "i", "r", "e", "d">>)
                     /\ Contains(exc[p][1].msg, Chars(schema.PRED_DET[j].FIELD_NAME))

\* An attempt is about to commit detail rows that have the type defaults of
\* five required columns that no mapping resolves
C28_DefaultsWritten ==
  \E p \in Threads :
    /\ pc[p] = "commit"
    /\ tx[p] # None
    /\ schema = SchemaTyped
    /\ tx[p][1].w.BON_DET # <<>>
    /\ tx[p][1].w.PRED_DET # <<>>
    /\ \A t \in {"BON_DET", "PRED_DET"} :
         /\ tx[p][1].w[t][1].STARE = 0
         /\ tx[p][1].w[t][1].ZI = request[p][1].pachet.data
         /\ tx[p][1].w[t][1].ORA.hour = 0
         /\ tx[p][1].w[t][1].MOMENT.date = request[p][1].pachet.data
         /\ tx[p][1].w[t][1].NOTA = <<>>

\* An attempt failed at the first BON_DET line for a required column of a type
\* that has no default, after it inserted the MISCARI rows
C28_UnfillableRaised ==
  \E p \in Threads :
    /\ pc[p] = "except"
    /\ tx[p] # None
    /\ \E j \in DOMAIN schema.BON_DET : Unfillable(schema.BON_DET[j])
    /\ \E i \in DOMAIN tx[p][1].w.MISCARI : tx[p][1].w.MISCARI[i].TIP_DOC = <<"B", "P">>
    /\ exc[p] # None
    /\ Contains(exc[p][1].msg, <<"P", "O", "Z", "A">>)

\* An attempt failed at the PRED_DET row for a required column of a type that
\* has no default, after it inserted the BON_DET rows
C28_UnfillableSummaryRaised ==
  \E p \in Threads :
    /\ pc[p] = "except"
    /\ tx[p] # None
    /\ \E j \in DOMAIN schema.PRED_DET : Unfillable(schema.PRED_DET[j])
    /\ tx[p][1].w.BON_DET # <<>>
    /\ exc[p] # None
    /\ Contains(exc[p][1].msg, <<"P", "O", "Z", "A">>)

\* C29: a call that wrote its document for a request of n materials added to
\* MISCARI exactly n BC rows and one BP row, all with the miscariId, the date
\* and the nrDoc of its result, added exactly n rows to BON_DET, says
\* bonDetInserted = n, and added exactly one row to PRED_DET.
C29_RowCounts ==
  \A p \in Threads :
    Wrote(p) =>
      LET n == Len(request[p][1].produse)
          result == outcome[p][1].result
          added == [t \in Tables |-> SubSeq(db[t], Len(hist[p].before[t]) + 1, Len(db[t]))]
          OfType(tip_doc) == {i \in DOMAIN added.MISCARI : added.MISCARI[i].TIP_DOC = tip_doc}
      IN /\ Cardinality(OfType(<<"B", "C">>)) = n
         /\ Cardinality(OfType(<<"B", "P">>)) = 1
         /\ Len(added.MISCARI) = n + 1
         /\ \A i \in DOMAIN added.MISCARI :
              /\ added.MISCARI[i].ID = result.miscariId
              /\ added.MISCARI[i].DATA = request[p][1].pachet.data
              /\ added.MISCARI[i].NR_DOC = result.nrDoc
         /\ Len(added.BON_DET) = n
         /\ result.bonDetInserted = n
         /\ Len(added.PRED_DET) = 1

\* C30: during and after a call, failed or successful, each of ARTICOLE,
\* MISCARI, BON_DET and PRED_DET begins with the rows it held when the call was
\* made, unchanged and in their order: rows are only added.
C30_AppendOnly ==
  \A p \in Threads : \A t \in Tables :
    /\ Len(db[t]) >= Len(hist[p].before[t])
    /\ SubSeq(db[t], 1, Len(hist[p].before[t])) = hist[p].before[t]

\* A call whose first attempt was rolled back wrote its document after the
\* documents the ledger held
C30_AppendedAfterRollback ==
  \E p \in Threads :
    /\ Wrote(p)
    /\ hist[p].rollbacks > 0
    /\ hist[p].before.MISCARI # <<>>
    /\ hist[p].before.PRED_DET # <<>>
    /\ Len(db.MISCARI) > Len(hist[p].before.MISCARI)
    /\ Len(db.BON_DET) > Len(hist[p].before.BON_DET)
    /\ Len(db.PRED_DET) > Len(hist[p].before.PRED_DET)

\* C31: whatever the interleaving of the two threads, the committed ARTICOLE
\* table has at most one row of the package name, and every committed BP row
\* carries the code of that row.
C31_OneArticle ==
  LET named == {r \in Rows(db.ARTICOLE) : r.DENUMIRE = PachetA}
  IN /\ Cardinality({i \in DOMAIN db.ARTICOLE : db.ARTICOLE[i].DENUMIRE = PachetA}) <= 1
     /\ \A m \in Rows(db.MISCARI) :
          m.TIP_DOC = <<"B", "P">> => \E r \in named : m.COD_ART = r.COD

\* Both threads wrote their documents in calls that found no article of the
\* package name, and the INSERT of the article collided in one of them
C31_BothCreated ==
  \E p \in Threads : \E q \in Threads \ {p} :
    /\ Wrote(p)
    /\ Wrote(q)
    /\ \A r \in Rows(hist[p].before.ARTICOLE) \cup Rows(hist[q].before.ARTICOLE) :
         r.DENUMIRE # PachetA
    /\ \E i \in DOMAIN hist[p].excs : hist[p].excs[i] = UniqueKeyError("ARTICOLE")

\* C32: an attempt whose INSERT of the article was refused for a unique key
\* and whose re-read found a row goes on with the code of that row and inserts
\* no article, and does not raise; an attempt that raised after the re-read
\* raised the violation, its re-read having found nothing, and producePachet
\* retries it if it is the first attempt; an attempt whose INSERT failed for
\* the connection raised that error and did not re-read.
C32_CollisionHandling ==
  \A p \in Threads :
    /\ loc[p].retry_row # None =>
         /\ loc[p].reread
         /\ loc[p].cod_pachet_db = loc[p].retry_row[1].COD
         /\ OwnRows(p).ARTICOLE = <<>>
         /\ pc[p] \notin {"except", "finally_continue", "finally_raise"}
    /\ (pc[p] = "except" /\ loc[p].reread) =>
         /\ exc[p] = Some(UniqueKeyError("ARTICOLE"))
         /\ loc[p].retry_row = None
    /\ (pc[p] = "except" /\ exc[p] = Some(ConnectionLost)) =>
         /\ ~loc[p].reread
         /\ loc[p].retry_row = None
    /\ (pc[p] \in {"finally_continue", "finally_raise"} /\ loc[p].reread) =>
         (pc[p] = "finally_continue" <=> attempt[p] = 0)

\* An attempt whose INSERT of the article was refused is about to commit a BP
\* row that carries the code of the row its re-read found
C32_ExistingCodeUsed ==
  \E p \in Threads :
    /\ pc[p] = "commit"
    /\ loc[p].retry_row # None
    /\ \E m \in Rows(OwnRows(p).MISCARI) :
         m.TIP_DOC = <<"B", "P">> /\ m.COD_ART = loc[p].retry_row[1].COD

\* After a violation that the re-read did not explain, the call is at its
\* second attempt
C32_ViolationRetried ==
  \E p \in Threads :
    /\ pc[p] = "connect"
    /\ attempt[p] = 1
    /\ loc[p].reread
    /\ loc[p].retry_row = None

\* C33: in every request the validator accepts, every material has the
\* quantity and the value of the payload, a quantity that is not zero and has
\* the sign of the produced quantity, and a value that is not zero.
C33_MaterialSigns ==
  \A p \in Threads :
    request[p] # None =>
      /\ Len(request[p][1].produse) = Len(payload[p][1].produse)
      /\ \A i \in DOMAIN request[p][1].produse :
           LET produs == request[p][1].produse[i]
               produced == request[p][1].pachet.cantitate_produsa
           IN /\ produs.cantitate = payload[p][1].produse[i].cantitate
              /\ produs.val_produse = payload[p][1].produse[i].val_produse
              /\ produs.cantitate # 0
              /\ (produs.cantitate > 0) <=> (produced > 0)
              /\ produs.val_produse # 0

\* The validator accepted a reversal of two materials, with negative
\* quantities and positive values
C33_ReversalAccepted ==
  \E p \in Threads :
    /\ request[p] # None
    /\ Len(request[p][1].produse) = 2
    /\ request[p][1].pachet.cantitate_produsa < 0
    /\ request[p][1].produse[1].cantitate < 0
    /\ request[p][1].produse[2].cantitate < 0
    /\ request[p][1].produse[1].val_produse > 0

\* C34: among the rows an attempt has inserted, the BC row of material i has
\* the quantity of the material, negative for a production and positive for a
\* reversal; the BP row has the produced quantity, positive for a production
\* and negative for a reversal; and the BON_DET line i has the quantity of the
\* BC row i.
C34_QuantitySigns ==
  \A p \in Threads :
    tx[p] # None =>
      LET w == tx[p][1].w
          produse == request[p][1].produse
          produced == request[p][1].pachet.cantitate_produsa
          reversal == produced < 0
      IN /\ \A i \in DOMAIN w.MISCARI :
              IF w.MISCARI[i].TIP_DOC = <<"B", "C">>
                THEN /\ i <= Len(produse)
                     /\ Abs(w.MISCARI[i].CANTITATE) = Abs(produse[i].cantitate)
                     /\ IF reversal THEN w.MISCARI[i].CANTITATE > 0 ELSE w.MISCARI[i].CANTITATE < 0
                ELSE /\ Abs(w.MISCARI[i].CANTITATE) = Abs(produced)
                     /\ IF reversal THEN w.MISCARI[i].CANTITATE < 0 ELSE w.MISCARI[i].CANTITATE > 0
         /\ \A i \in DOMAIN w.BON_DET :
              HasValue(w.BON_DET[i], "CANTITATE") =>
                /\ w.MISCARI[i].TIP_DOC = <<"B", "C">>
                /\ w.BON_DET[i].CANTITATE = w.MISCARI[i].CANTITATE

\* An attempt is about to commit the rows of a reversal
C34_ReversalWritten ==
  \E p \in Threads :
    /\ pc[p] = "commit"
    /\ tx[p] # None
    /\ request[p][1].pachet.cantitate_produsa < 0
    /\ Len(tx[p][1].w.MISCARI) = Len(request[p][1].produse) + 1
    /\ tx[p][1].w.MISCARI[1].CANTITATE > 0
    /\ tx[p][1].w.BON_DET # <<>>
    /\ tx[p][1].w.BON_DET[1].CANTITATE > 0

\* C35: _run_pachet_import_sync calls producePachet once for every item, in
\* the order of the list, whether or not an earlier call raised: at any time
\* the calls made are the items before the index, each called once with the
\* item itself, and the call in progress is the item at the index; the count
\* of successes is the number of calls that returned (a call that found
\* the document already imported returned) and the list of errors has one
\* message per call that raised; it ends after the last item only, raising
\* RuntimeError when a call raised and returning the count of successes
\* otherwise.
C35_BatchImport ==
  LET p == "scheduler"
      inCall == ~Idle(p) \/ outcome[p] # None
      returned == {i \in DOMAIN attempted : attempted[i].outcome.kind = "returned"}
      raised == DOMAIN attempted \ returned
  IN /\ Len(attempted) = index - 1
     /\ \A i \in DOMAIN attempted : i <= Len(items) /\ attempted[i].item = items[i]
     /\ calls = Len(attempted) + (IF inCall THEN 1 ELSE 0)
     /\ inCall => index <= Len(items) /\ payload[p] = Some(items[index])
     /\ success_count = Cardinality(returned)
     /\ Len(error_messages) = Cardinality(raised)
     /\ sync_result # None =>
          /\ ~inCall
          /\ Len(attempted) = Len(items)
          /\ IF raised # {}
               THEN /\ ~sync_result[1].ok
                    /\ sync_result[1].error.cls = "RuntimeError"
               ELSE sync_result[1] = Return(Cardinality(returned))

\* The batch ended: its first item raised, its second item was called and
\* returned that the document was imported before, and the batch raised
C35_LaterItemAttempted ==
  /\ sync_result # None
  /\ Len(items) = 2
  /\ Len(attempted) = 2
  /\ attempted[1].outcome.kind = "raised"
  /\ attempted[2].outcome.kind = "returned"
  /\ attempted[2].outcome.result.alreadyImported
  /\ success_count = 1
  /\ ~sync_result[1].ok

\* The batch ended: both items returned, the second as imported before, and
\* the batch returned 2
C35_RepeatedItemCounted ==
  /\ sync_result = Some(Return(2))
  /\ attempted[1].item = attempted[2].item
  /\ ~attempted[1].outcome.result.alreadyImported
  /\ attempted[2].outcome.result.alreadyImported

\* C36: at most one thread of _run_loop is inside a job at any time, whatever
\* the calls of start and stop were.
C36_SingleLoop == Cardinality({l \in Loops : loop[l].pc \in InJob}) <= 1

\* C37: no thread of _run_loop goes into a job in a step that begins with the
\* stop event set.
C37_NoJobAfterStop ==
  [][\A l \in Loops : _stop_event /\ loop[l].pc \notin InJob => loop'[l].pc \notin InJob]_vars

\* C38: for every code of a payload the validator has looked at, when
\* normalizeCodArticol accepts the code its output has 16 characters, the
\* first 8 of them digits, and normalizeCodArticol of that output returns the
\* output itself; the code of the accepted request is that output.
C38_Idempotent ==
  \A p \in Threads :
    (payload[p] # None /\ pc[p] # "validate") =>
      \A i \in DOMAIN payload[p][1].produse :
        LET once == normalizeCodArticol(payload[p][1].produse[i].cod_articol)
        IN /\ once.ok =>
                /\ Len(once.value) = 16
                /\ IsDigit(SubSeq(once.value, 1, 8))
                /\ normalizeCodArticol(once.value) = Return(once.value)
           /\ request[p] # None =>
                /\ once.ok
                /\ request[p][1].produse[i].cod_articol_db = once.value

\* The validator accepted a request whose code was given as " 42 ", and the
\* code of the request is 00000042 and 8 spaces
C38_ShortCodeNormalized ==
  \E p \in Threads :
    /\ request[p] # None
    /\ payload[p][1].produse[1].cod_articol = <<" ", "4", "2", " ">>
    /\ request[p][1].produse[1].cod_articol_db = <<"0", "0", "0", "0", "0", "0", "4", "2", " ", " ", " ", " ", " ", " ", " ", " ">>

====
